---- MODULE Spec2Model ----
(***************************************************************************)
(* Chain event subscription engines of the payment-processing examples:    *)
(*   AccountSubscription        (class,    payment-processing)             *)
(*   createAccountSubscription  (closure,  toncoin-processing)             *)
(*   BlockSubscription          (class / createBlockSubscription closure)  *)
(*   BlockSubscription          (Index API variant)                        *)
(* A tick body is a sequence of steps separated by its awaits (a query, a  *)
(* backoff wait, a callback); the timer, start(), stop() and the chain     *)
(* interleave with those steps.                                            *)
(***************************************************************************)
EXTENDS Integers, Sequences, FiniteSets

VARIABLES
    impl,               \* which subscriber this run is about
    limit,              \* page size (options.limit ?? 10)
    generation,         \* how many times the subscriber was constructed anew
                        \* from the cursor of the one before
    history,            \* the account's transactions, newest first
    lastProcessedLt,    \* resume cursor, a decimal string (<<>> = undefined)
    lastProcessedHash,  \* resume cursor, a base64 string (<<>> = undefined)
    isProcessing,       \* the re-entrancy guard
    intervalId,         \* the stored timer handle (0 = undefined)
    timers,             \* interval timers that are armed
    starts,             \* number of start() calls made so far
    ticks,              \* the tick bodies in progress, each at one of its awaits
    latestSeqno,        \* chain: latest published masterchain seqno
    lastProcessedBlock, \* chain: the block cursor
    chainAcked,         \* log (chain): transactions for which the callback returned
    passed,             \* log: transactions handed to the callback, in order
    acked,              \* log: transactions for which the callback returned
    lastRaised,         \* log: the transaction the callback raised on in the
                        \*      tick body that ended last (0 = it did not raise)
    handler,            \* deposits: the callback the subscriber was given
    delivered,          \* deposits: transactions handed to it in this batch
    lastTx,             \* deposits: the transaction handed to it last
    lastOutcome,        \* deposits: what it did with that transaction
    aborted,            \* deposits: the batch was left because it raised
    payments,           \* database: the payment records, by UUID
    processedHashes,    \* database: hashes of the transactions credited
    credits,            \* database log: the calls of creditUserAccount
    lastCall,           \* database log: the last processDeposit and its end
    loader,             \* startup: which loadConfig the program has
    env,                \* startup: the environment variables
    loaded,             \* startup: what loadConfig returned
    boot,               \* startup: how far main() has come
    contract,           \* DelayedUpgrade: the contract's code and storage
    chainNow,           \* DelayedUpgrade: the chain's time
    results,            \* DelayedUpgrade log: the messages handled, with
                        \*      their exit codes
    subs,               \* several subscribers: the state each one owns
    pair                \* the two account subscribers run side by side on
                        \*      one account with the same outcomes

\* the variables of the deposit handlers
depositVars == <<handler, delivered, lastTx, lastOutcome, aborted>>

\* the variables of the mock database of the integration example
dbVars == <<payments, processedHashes, credits, lastCall>>

\* the variables of main() before the subscriber runs
bootVars == <<loader, env, loaded, boot>>

\* the variables of the DelayedUpgrade contract and its chain
upgradeVars == <<contract, chainNow, results>>

\* everything outside the subscription engine
appVars == <<depositVars, dbVars, bootVars, upgradeVars, subs, pair>>

\* the variables of the subscription engine
engineVars == <<impl, limit, generation, history, lastProcessedLt,
                lastProcessedHash, isProcessing, intervalId, timers, starts,
                ticks, latestSeqno, lastProcessedBlock, chainAcked, passed,
                acked, lastRaised>>

vars == <<engineVars, appVars>>

-----------------------------------------------------------------------------
(* Bounds *)

MaxLt == 3          \* transactions an account ever has
MaxInitial == 1     \* transactions present at construction
MaxRaises == 1      \* callback invocations that raise
MaxSeqno == 2       \* masterchain blocks ever published
MaxHist == 6        \* transactions of the account in the pagination runs
MaxPage == 3        \* page size in the pagination runs
MaxRestarts == 1    \* subscribers constructed from a predecessor's cursor

(* Program constants *)

ClassMaxRetry == 10         \* retryCount < 10
FnMaxAttempts == 3          \* attemptNumber < 3
BackoffBase == 1000
BackoffCap == 10000

AccountImpls == {"AccountSubscription", "createAccountSubscription"}

\* BlockSubscription and createBlockSubscription are the same code, a class and
\* a closure; the Index API variant fetches a block's transactions in one query
ChainImpls == {"BlockSubscription", "IndexBlockSubscription"}

-----------------------------------------------------------------------------
(* Strings *)

Undefined == <<>>

\* no deposit handler is under study
DepositIdle ==
    /\ handler = "none"
    /\ delivered = 0
    /\ lastTx = Undefined
    /\ lastOutcome = "none"
    /\ aborted = FALSE

\* new MockDatabase()
DbEmpty ==
    /\ payments = <<>>
    /\ processedHashes = {}
    /\ credits = <<>>
    /\ lastCall = Undefined

\* the subscriber is constructed already
Booted ==
    /\ loader = "none"
    /\ env = Undefined
    /\ loaded = Undefined
    /\ boot = "constructed"

\* no contract is deployed
NoContract ==
    /\ contract = Undefined
    /\ chainNow = 0
    /\ results = <<>>

\* no further subscriber exists
NoSubs == subs = <<>>

\* no pair of subscribers is compared
NoPair == pair = <<>>

\* only the subscription engine runs
AppIdle == DepositIdle /\ DbEmpty /\ Booted /\ NoContract /\ NoSubs /\ NoPair

\* if (!s): undefined and the empty string are both falsy
Falsy(s) == s = <<>>

RECURSIVE ToString(_)
\* bigint.toString(): the decimal digits, most significant first
ToString(n) == IF n < 10 THEN <<n>> ELSE ToString(n \div 10) \o <<n % 10>>

RECURSIVE ParseLt(_)
\* the port reads the decimal string back
ParseLt(s) == IF Len(s) = 0 THEN 0
              ELSE 10 * ParseLt(SubSeq(s, 1, Len(s) - 1)) + s[Len(s)]

\* Buffer.toString('base64') of a transaction hash: two symbols per hash here
Base64(h) == <<h \div 8, h % 8>>

\* the hash of the account's transaction with logical time lt
HashOf(lt) == 8 + lt

Tx(lt) == [lt |-> lt, hash |-> HashOf(lt)]

\* the batch is delivered as fetched, newest first
ReverseForgotten(s) == s

RECURSIVE Reverse(_)
\* [...newTransactions].reverse()
Reverse(s) == IF Len(s) = 0 THEN <<>> ELSE Reverse(Tail(s)) \o <<Head(s)>>

Take(s, n) == IF Len(s) <= n THEN s ELSE SubSeq(s, 1, n)

RemoveAt(s, i) == SubSeq(s, 1, i - 1) \o SubSeq(s, i + 1, Len(s))

-----------------------------------------------------------------------------
(* Chain Query Port: account transactions *)

\* the port ignores the paging offset and answers with the newest page
GetTransactionsNewest(hist, lim, offLt, offHash) == Take(hist, lim)

\* client.getTransactions(address, {limit, lt, hash}): up to `limit`
\* transactions, newest first, older than the paging offset when one is given
GetTransactions(hist, lim, offLt, offHash) ==
    IF Falsy(offLt) \/ Falsy(offHash)
    THEN Take(hist, lim)
    ELSE Take(SelectSeq(hist, LAMBDA t : t.lt < ParseLt(offLt)), lim)

-----------------------------------------------------------------------------
(* Account subscriber: pure parts *)

IsAlreadyProcessed(tx, curLt, curHash) ==
    IF Falsy(curLt) \/ Falsy(curHash)
    THEN FALSE
    ELSE ToString(tx.lt) = curLt /\ Base64(tx.hash) = curHash

\* the scan never stops: the whole page is collected
ScanPageWhole(page, curLt, curHash) == page

RECURSIVE ScanPage(_, _, _)
\* for (const tx of transactions) { if (isAlreadyProcessed(tx)) return ...; push }
\* the transactions collected before the first already-processed one
ScanPage(page, curLt, curHash) ==
    IF Len(page) = 0 THEN <<>>
    ELSE IF IsAlreadyProcessed(Head(page), curLt, curHash) THEN <<>>
    ELSE <<Head(page)>> \o ScanPage(Tail(page), curLt, curHash)

\* the scan returned early at the resume cursor
HitCursor(page, curLt, curHash) ==
    \E k \in 1..Len(page) : IsAlreadyProcessed(page[k], curLt, curHash)

\* only the first page is ever fetched
HasMorePagesNever(page, lim) == FALSE

\* if (transactions.length === this.limit): fetch the next older page
HasMorePages(page, lim) == Len(page) = lim

\* retryCount = 0 in the class, attemptNumber = 1 in the closure
InitialAttempt(im) == IF im = "AccountSubscription" THEN 0 ELSE 1

\* the attempt counter after a failed query, and whether the fetch is retried
NextAttempt(im, n) == n + 1

\* the fetch of the next older page goes on with the counter it has
PageAttemptCarried(im, n) == n

\* fetchNewTransactions(lastTx.lt.toString(), ..., 0) in the class, (..., 1)
\* in the closure: the counter the fetch of the next older page starts with
PageAttempt(im, n) == InitialAttempt(im)

\* a failed query is always issued again
RetryAlways(im, n) == TRUE

RetryAgain(im, n) ==
    IF im = "AccountSubscription"
    THEN n + 1 < ClassMaxRetry
    ELSE n < FnMaxAttempts

Min(a, b) == IF a < b THEN a ELSE b

RECURSIVE Pow2(_)
Pow2(k) == IF k = 0 THEN 1 ELSE 2 * Pow2(k - 1)

\* every wait is one second
BackoffFixed(im, n) == BackoffBase

\* wait(retryCount * 1000) / Math.min(1000 * 2 ** (attemptNumber - 1), 10000)
BackoffDelay(im, n) ==
    IF im = "AccountSubscription"
    THEN (n + 1) * BackoffBase
    ELSE Min(BackoffBase * Pow2(n - 1), BackoffCap)

\* the closure moves the cursor after every callback that returned
CursorPerDelivery(im) == im = "createAccountSubscription"

\* the class moves it once, after the loop, to newTransactions[0]
CursorAfterLoop(im) == im = "AccountSubscription"

-----------------------------------------------------------------------------
(* Tick bodies *)

\* a tick body that just passed the guard and issued its first query
NewTick(from) ==
    [pc |-> IF impl \in AccountImpls THEN "fetch" ELSE "info",
     fromStart |-> from,
     offLt |-> Undefined, offHash |-> Undefined,
     attempt |-> InitialAttempt(impl), delay |-> 0,
     coll |-> <<>>, ordered |-> <<>>, idx |-> 0,
     exhausted |-> FALSE, prevRaised |-> lastRaised, dropped |-> FALSE,
     stopCalled |-> FALSE, hit |-> FALSE, fetched |-> <<>>,
     seq |-> 0, target |-> 0, shards |-> <<>>, sIdx |-> 0, txs |-> <<>>,
     drained |-> FALSE, caught |-> "none", lateCaught |-> FALSE]

\* the guard is never consulted
GuardIgnored(flag) == FALSE

\* if (this.isProcessing) return;
GuardBlocks(flag) == flag

chainVars == <<latestSeqno, lastProcessedBlock, chainAcked>>
\* what no step of a tick, of the scheduler or of the chain changes
config == <<impl, limit, generation, appVars>>
cursor == <<lastProcessedLt, lastProcessedHash>>

\* the tick body ends and the guard stays as it is
EndTickKeepsGuard(i, t, raisedLt) ==
    /\ UNCHANGED isProcessing
    /\ ticks' = RemoveAt(ticks, i)
    /\ lastRaised' = raisedLt
    /\ IF t.fromStart > 0
       THEN /\ intervalId' = t.fromStart
            /\ timers' = timers \cup {t.fromStart}
       ELSE UNCHANGED <<intervalId, timers>>

\* finally { isProcessing = false }; start() then arms its timer when the
\* tick body that ended is the one it awaited
EndTick(i, t, raisedLt) ==
    /\ isProcessing' = FALSE
    /\ ticks' = RemoveAt(ticks, i)
    /\ lastRaised' = raisedLt
    /\ IF t.fromStart > 0
       THEN /\ intervalId' = t.fromStart
            /\ timers' = timers \cup {t.fromStart}
       ELSE UNCHANGED <<intervalId, timers>>

\* the guard is consulted and never set
GuardNeverSet == FALSE

\* this.isProcessing = true
GuardOnEntry == TRUE

BeginTick(from) ==
    /\ isProcessing' = GuardOnEntry
    /\ ticks' = Append(ticks, NewTick(from))

-----------------------------------------------------------------------------
(* Scheduler: start(), the interval timer, stop() *)

\* the interval timer is armed before the first tick is run
StartArmsFirst ==
    /\ starts = 0
    /\ starts' = starts + 1
    /\ intervalId' = starts + 1
    /\ timers' = timers \cup {starts + 1}
    /\ BeginTick(starts + 1)
    /\ UNCHANGED <<config, history, cursor, chainVars, passed, acked, lastRaised>>

\* await tick(); this.intervalId = setInterval(tick, intervalMs)
\* (an instance is started once, as every caller in the repository does)
Start ==
    /\ starts = 0
    /\ starts' = starts + 1
    /\ IF GuardBlocks(isProcessing)
       THEN /\ intervalId' = starts + 1
            /\ timers' = timers \cup {starts + 1}
            /\ UNCHANGED <<isProcessing, ticks>>
       ELSE /\ BeginTick(starts + 1)
            /\ UNCHANGED <<intervalId, timers>>
    /\ UNCHANGED <<config, history, cursor, chainVars, passed, acked, lastRaised>>

\* the interval timer fires: tick()
TimerFire ==
    /\ timers # {}
    /\ IF GuardBlocks(isProcessing)
       THEN /\ \E i \in 1..Len(ticks) :
                   /\ ~ticks[i].dropped
                   /\ ticks' = [ticks EXCEPT ![i].dropped = TRUE]
            /\ UNCHANGED isProcessing
       ELSE BeginTick(0)
    /\ UNCHANGED <<config, history, cursor, chainVars, passed, acked, lastRaised,
                   intervalId, timers, starts>>

\* if (this.intervalId) { clearInterval(this.intervalId); this.intervalId = undefined }
\* (a call that finds no handle while start() still awaits its tick is noted
\* in that tick body's stopCalled)
Stop ==
    /\ starts > 0
    /\ IF intervalId # 0
       THEN /\ timers' = timers \ {intervalId}
            /\ intervalId' = 0
            /\ UNCHANGED ticks
       ELSE /\ UNCHANGED <<intervalId, timers>>
            /\ ticks' = [i \in 1..Len(ticks) |->
                   IF ticks[i].fromStart > 0
                   THEN [ticks[i] EXCEPT !.stopCalled = TRUE]
                   ELSE ticks[i]]
    /\ UNCHANGED <<config, history, cursor, chainVars, passed, acked, lastRaised,
                   isProcessing, starts>>

-----------------------------------------------------------------------------
(* The account: transactions arrive with increasing logical time *)

\* the logical time of the account's k-th transaction
LtOf(k) == 7 + k

\* the logical time of the next transaction: later than every transaction of
\* the account, and later than any the account can have started with
NextLt(hist) ==
    IF hist # <<>> /\ hist[1].lt > LtOf(MaxInitial)
    THEN hist[1].lt + 1
    ELSE LtOf(MaxInitial + 1)

AppendTx ==
    /\ impl \in AccountImpls
    /\ Len(history) < MaxLt
    /\ history' = <<Tx(NextLt(history))>> \o history
    /\ UNCHANGED <<config, cursor, chainVars, passed, acked, lastRaised,
                   isProcessing, ticks, starts, intervalId, timers>>

-----------------------------------------------------------------------------
(* Account subscriber: the steps of a tick body *)

\* fetchNewTransactions() resolved with res: the rest of the tick body up to
\* its next await
Return(i, t, res) ==
    IF Len(res) = 0
    THEN /\ UNCHANGED <<cursor, passed>>
         /\ EndTick(i, t, 0)
    ELSE LET ord == Reverse(res) IN
         /\ ticks' = [ticks EXCEPT ![i] =
                [t EXCEPT !.pc = "callback", !.coll = res, !.ordered = ord,
                          !.idx = 1]]
         /\ passed' = Append(passed, ord[1].lt)
         /\ UNCHANGED <<cursor, isProcessing, intervalId, timers, lastRaised>>

\* getTransactions resolved
FetchOk(i) ==
    LET t == ticks[i]
        page == GetTransactions(history, limit, t.offLt, t.offHash)
        fresh == ScanPage(page, lastProcessedLt, lastProcessedHash)
        all == t.coll \o fresh
        last == page[Len(page)]
    IN  /\ t.pc = "fetch"
        /\ IF /\ Len(page) > 0
              /\ ~HitCursor(page, lastProcessedLt, lastProcessedHash)
              /\ HasMorePages(page, limit)
           THEN /\ ticks' = [ticks EXCEPT ![i] =
                       [t EXCEPT !.coll = all,
                                 !.offLt = ToString(last.lt),
                                 !.offHash = Base64(last.hash),
                                 !.attempt = PageAttempt(impl, t.attempt)]]
                /\ UNCHANGED <<cursor, passed, isProcessing, intervalId, timers,
                               lastRaised>>
           ELSE Return(i, [t EXCEPT !.hit = HitCursor(page, lastProcessedLt,
                                                      lastProcessedHash)], all)
        /\ UNCHANGED <<config, history, chainVars, acked, starts>>

\* getTransactions rejected: after the backoff wait the query is issued again,
\* or the fetch gives up with an empty result
FetchFail(i) ==
    LET t == ticks[i] IN
        /\ t.pc = "fetch"
        /\ IF RetryAgain(impl, t.attempt)
           THEN /\ ticks' = [ticks EXCEPT ![i] =
                       [t EXCEPT !.delay = BackoffDelay(impl, t.attempt),
                                 !.attempt = NextAttempt(impl, t.attempt)]]
                /\ UNCHANGED <<cursor, passed, isProcessing, intervalId, timers,
                               lastRaised>>
           ELSE Return(i, [t EXCEPT !.exhausted = TRUE], t.coll)
        /\ UNCHANGED <<config, history, chainVars, acked, starts>>

\* callback invocations that have raised so far
Raises ==
    Len(passed) - Len(acked)
        - Cardinality({i \in 1..Len(ticks) : ticks[i].pc = "callback"})

\* onTransaction(tx) resolved
CallbackOk(i) ==
    LET t == ticks[i]
        tx == t.ordered[t.idx]
        next == t.ordered[t.idx + 1]
        latest == t.coll[1]
    IN  /\ impl \in AccountImpls
        /\ t.pc = "callback"
        /\ acked' = Append(acked, tx.lt)
        /\ IF t.idx < Len(t.ordered)
           THEN /\ IF CursorPerDelivery(impl)
                   THEN /\ lastProcessedLt' = ToString(tx.lt)
                        /\ lastProcessedHash' = Base64(tx.hash)
                   ELSE UNCHANGED cursor
                /\ ticks' = [ticks EXCEPT ![i] =
                       [t EXCEPT !.idx = t.idx + 1]]
                /\ passed' = Append(passed, next.lt)
                /\ UNCHANGED <<isProcessing, intervalId, timers, lastRaised>>
           ELSE /\ IF CursorPerDelivery(impl)
                   THEN /\ lastProcessedLt' = ToString(tx.lt)
                        /\ lastProcessedHash' = Base64(tx.hash)
                   ELSE IF CursorAfterLoop(impl)
                   THEN /\ lastProcessedLt' = ToString(latest.lt)
                        /\ lastProcessedHash' = Base64(latest.hash)
                   ELSE UNCHANGED cursor
                /\ UNCHANGED passed
                /\ EndTick(i, t, 0)
        /\ UNCHANGED <<config, history, chainVars, starts>>

\* the failed transaction is skipped: the cursor moves past it
CallbackRaiseSkips(i) ==
    LET t == ticks[i]
        tx == t.ordered[t.idx]
    IN  /\ impl \in AccountImpls
        /\ t.pc = "callback"
        /\ Raises < MaxRaises
        /\ lastProcessedLt' = ToString(tx.lt)
        /\ lastProcessedHash' = Base64(tx.hash)
        /\ UNCHANGED <<passed, acked>>
        /\ EndTick(i, t, tx.lt)
        /\ UNCHANGED <<config, history, chainVars, starts>>

\* onTransaction(tx) rejected: catch, log, finally
CallbackRaise(i) ==
    LET t == ticks[i]
        tx == t.ordered[t.idx]
    IN  /\ impl \in AccountImpls
        /\ t.pc = "callback"
        /\ Raises < MaxRaises
        /\ UNCHANGED <<cursor, passed, acked>>
        /\ EndTick(i, t, tx.lt)
        /\ UNCHANGED <<config, history, chainVars, starts>>

-----------------------------------------------------------------------------
(* Account specification *)

\* options.limit: with pages of 2 an account of up to MaxLt transactions gives
\* empty, partial and full pages, and fetches of several pages
PageSizes == {2}

\* resume cursors a caller may seed: none, a transaction of the account, or a
\* pair that names no transaction of the account
SeedCursors(hist) ==
    {<<Undefined, Undefined>>}
    \cup {<<ToString(hist[k].lt), Base64(hist[k].hash)>> : k \in 1..Len(hist)}
    \cup {<<ToString(hist[k].lt), Base64(0)>> : k \in 1..Min(1, Len(hist))}

AcctInit ==
    /\ impl \in AccountImpls
    /\ limit \in PageSizes
    /\ generation = 0
    /\ AppIdle
    /\ \E n \in 0..MaxInitial : history = [k \in 1..n |-> Tx(LtOf(n + 1 - k))]
    /\ \E c \in SeedCursors(history) :
          /\ lastProcessedLt = c[1]
          /\ lastProcessedHash = c[2]
    /\ isProcessing = FALSE
    /\ intervalId = 0
    /\ timers = {}
    /\ starts = 0
    /\ ticks = <<>>
    /\ latestSeqno = 0
    /\ lastProcessedBlock = 0
    /\ chainAcked = {}
    /\ passed = <<>>
    /\ acked = <<>>
    /\ lastRaised = 0

AcctNext ==
    \/ Start
    \/ TimerFire
    \/ Stop
    \/ AppendTx
    \/ \E i \in 1..Len(ticks) : FetchOk(i)
    \/ \E i \in 1..Len(ticks) : FetchFail(i)
    \/ \E i \in 1..Len(ticks) : CallbackOk(i)
    \/ \E i \in 1..Len(ticks) : CallbackRaise(i)

SpecAcct == AcctInit /\ [][AcctNext]_vars

-----------------------------------------------------------------------------
(* An account subscriber constructed on an account that holds two          *)
(* transactions already, with any resume cursor a caller may pass          *)

SeededInit ==
    /\ impl \in AccountImpls
    /\ limit \in PageSizes
    /\ generation = 0
    /\ AppIdle
    /\ history = <<Tx(LtOf(2)), Tx(LtOf(1))>>
    /\ \E c \in SeedCursors(history) :
          /\ lastProcessedLt = c[1]
          /\ lastProcessedHash = c[2]
    /\ isProcessing = FALSE
    /\ intervalId = 0
    /\ timers = {}
    /\ starts = 0
    /\ ticks = <<>>
    /\ latestSeqno = 0
    /\ lastProcessedBlock = 0
    /\ chainAcked = {}
    /\ passed = <<>>
    /\ acked = <<>>
    /\ lastRaised = 0

SpecSeeded == SeededInit /\ [][AcctNext]_vars

-----------------------------------------------------------------------------
(* Pagination runs: one start() on an account of N transactions with page    *)
(* size L, no resume cursor, every query answered                            *)

PagesInit ==
    /\ impl \in AccountImpls
    /\ limit \in 1..MaxPage
    /\ generation = 0
    /\ AppIdle
    /\ \E n \in 0..MaxHist : history = [k \in 1..n |-> Tx(LtOf(n + 1 - k))]
    /\ lastProcessedLt = Undefined
    /\ lastProcessedHash = Undefined
    /\ isProcessing = FALSE
    /\ intervalId = 0
    /\ timers = {}
    /\ starts = 0
    /\ ticks = <<>>
    /\ latestSeqno = 0
    /\ lastProcessedBlock = 0
    /\ chainAcked = {}
    /\ passed = <<>>
    /\ acked = <<>>
    /\ lastRaised = 0

PagesNext ==
    \/ Start
    \/ \E i \in 1..Len(ticks) : FetchOk(i)
    \/ \E i \in 1..Len(ticks) : CallbackOk(i)

SpecPages == PagesInit /\ [][PagesNext]_vars

-----------------------------------------------------------------------------
(* Chain Query Port: blocks, shards and their transactions *)

MasterchainShard == "8000000000000000"

\* { workchain: -1, shard: masterchainShard, seqno }
RootShard(n) == [workchain |-> -1, shard |-> MasterchainShard, seqno |-> n]

\* client.getWorkchainShards(seqno): one shard at odd blocks, two at even ones
WorkchainShards(n) ==
    IF n % 2 = 1
    THEN <<[workchain |-> 0, shard |-> "8000000000000000", seqno |-> n]>>
    ELSE <<[workchain |-> 0, shard |-> "4000000000000000", seqno |-> n],
           [workchain |-> 0, shard |-> "c000000000000000", seqno |-> n]>>

\* how many transactions a shard block holds
TxCount(b) ==
    IF b.workchain = -1 THEN 1
    ELSE IF b.shard = "8000000000000000" THEN 2
    ELSE IF b.shard = "4000000000000000" THEN 1
    ELSE 0

\* client.getShardTransactions(workchain, seqno, shard)
ShardTransactions(b) == [k \in 1..TxCount(b) |-> [block |-> b, k |-> k]]

\* every shard block of masterchain block n: the root and the reported ones
BlocksAt(n) == <<RootShard(n)>> \o WorkchainShards(n)

\* every transaction of masterchain block n
TxsAt(n) ==
    UNION {{[block |-> BlocksAt(n)[s], k |-> k] : k \in 1..TxCount(BlocksAt(n)[s])} :
              s \in 1..Len(BlocksAt(n))}

RECURSIVE Flatten(_)
Flatten(ss) == IF Len(ss) = 0 THEN <<>> ELSE Head(ss) \o Flatten(Tail(ss))

\* the Index API's getTransactionsByMasterchainSeqno
TransactionsByMasterchainBlock(n) ==
    Flatten([s \in 1..Len(BlocksAt(n)) |-> ShardTransactions(BlocksAt(n)[s])])

\* a new masterchain block is published
PublishBlock ==
    /\ impl \in ChainImpls
    /\ latestSeqno < MaxSeqno
    /\ latestSeqno' = latestSeqno + 1
    /\ UNCHANGED <<config, history, cursor, lastProcessedBlock, chainAcked,
                   passed, acked, lastRaised, isProcessing, ticks, starts,
                   intervalId, timers>>

-----------------------------------------------------------------------------
(* Chain subscriber (BlockSubscription, createBlockSubscription) *)

accountVars == <<history, cursor, passed, acked>>

\* processBlock asks for the workchain shards at once, the root shard is left out
EnterBlockSkipsRoot(t, n) ==
    [t EXCEPT !.pc = "shards", !.seq = n, !.shards = <<RootShard(n)>>,
              !.sIdx = 1, !.txs = <<>>, !.idx = 0, !.drained = FALSE,
              !.fetched = <<>>]

\* processBlock(seqno) begins: processShard of the root shard issues its query
\* (fetched: the shard blocks whose transactions were asked for in this pass)
EnterBlock(t, n) ==
    [t EXCEPT !.pc = "shardTxs", !.seq = n, !.shards = <<RootShard(n)>>,
              !.sIdx = 1, !.txs = <<>>, !.idx = 0, !.drained = FALSE,
              !.fetched = <<RootShard(n)>>]

\* the cursor jumps to the latest block seen
BlockDoneJumps(i, t) ==
    /\ lastProcessedBlock' = t.target
    /\ EndTick(i, t, 0)

\* processBlock returned: this.lastProcessedBlock = nextSeqno; nextSeqno += 1
BlockDone(i, t) ==
    /\ lastProcessedBlock' = t.seq
    /\ IF t.seq + 1 <= t.target
       THEN /\ ticks' = [ticks EXCEPT ![i] = EnterBlock(t, t.seq + 1)]
            /\ UNCHANGED <<isProcessing, intervalId, timers, lastRaised>>
       ELSE EndTick(i, t, 0)

\* for (const shard of shards): processShard of the next one issues its query,
\* or processBlock returns
NextShard(i, t) ==
    IF t.sIdx < Len(t.shards)
    THEN /\ ticks' = [ticks EXCEPT ![i] =
                [t EXCEPT !.pc = "shardTxs", !.sIdx = t.sIdx + 1, !.txs = <<>>,
                          !.idx = 0,
                          !.fetched = Append(t.fetched, t.shards[t.sIdx + 1])]]
         /\ UNCHANGED <<lastProcessedBlock, isProcessing, intervalId, timers,
                        lastRaised>>
    ELSE BlockDone(i, t)

\* processShard returned: after the root shard processBlock asks for the
\* workchain shards, after any other it goes on with the loop
ShardDone(i, t) ==
    IF t.sIdx = 1
    THEN /\ ticks' = [ticks EXCEPT ![i] = [t EXCEPT !.pc = "shards"]]
         /\ UNCHANGED <<lastProcessedBlock, isProcessing, intervalId, timers,
                        lastRaised>>
    ELSE NextShard(i, t)

\* for (const shortTx of transactions): the next one, or the shard is drained
NextTx(i, t) ==
    IF t.idx < Len(t.txs)
    THEN /\ ticks' = [ticks EXCEPT ![i] = [t EXCEPT !.pc = "getTx", !.idx = t.idx + 1]]
         /\ UNCHANGED <<lastProcessedBlock, isProcessing, intervalId, timers,
                        lastRaised>>
    ELSE ShardDone(i, [t EXCEPT !.drained =
                t.drained \/ \A k \in 1..Len(t.txs) : t.txs[k] \in chainAcked'])

\* catch (error) { console.error(...); return 0; } in processShard
Caught(t, kind) ==
    [t EXCEPT !.caught = kind, !.lateCaught = t.lateCaught \/ t.drained]

\* a block is entered whatever the chain's head is
NothingNewNever(target, last) == FALSE

\* if (targetSeqno <= this.lastProcessedBlock) return;
NothingNew(target, last) == target <= last

\* every tick goes through the chain from its first block again
InfoOkFromStart(i) ==
    LET t == ticks[i] IN
        /\ t.pc = "info"
        /\ IF NothingNew(latestSeqno, lastProcessedBlock)
           THEN /\ EndTick(i, t, 0)
                /\ UNCHANGED lastProcessedBlock
           ELSE /\ ticks' = [ticks EXCEPT ![i] =
                       IF impl = "IndexBlockSubscription"
                       THEN [t EXCEPT !.pc = "index", !.seq = 1,
                                      !.target = latestSeqno]
                       ELSE EnterBlock([t EXCEPT !.target = latestSeqno], 1)]
                /\ UNCHANGED <<lastProcessedBlock, isProcessing, intervalId,
                               timers, lastRaised>>
        /\ UNCHANGED <<config, accountVars, latestSeqno, chainAcked, starts>>

\* getMasterchainInfo resolved
InfoOk(i) ==
    LET t == ticks[i] IN
        /\ t.pc = "info"
        /\ IF NothingNew(latestSeqno, lastProcessedBlock)
           THEN /\ EndTick(i, t, 0)
                /\ UNCHANGED lastProcessedBlock
           ELSE /\ ticks' = [ticks EXCEPT ![i] =
                       IF impl = "IndexBlockSubscription"
                       THEN [t EXCEPT !.pc = "index", !.seq = lastProcessedBlock + 1,
                                      !.target = latestSeqno]
                       ELSE EnterBlock([t EXCEPT !.target = latestSeqno],
                                       lastProcessedBlock + 1)]
                /\ UNCHANGED <<lastProcessedBlock, isProcessing, intervalId,
                               timers, lastRaised>>
        /\ UNCHANGED <<config, accountVars, latestSeqno, chainAcked, starts>>

\* getMasterchainInfo rejected: the tick's catch and finally
InfoFail(i) ==
    LET t == ticks[i] IN
        /\ t.pc = "info"
        /\ EndTick(i, t, 0)
        /\ UNCHANGED <<config, accountVars, latestSeqno, lastProcessedBlock,
                       chainAcked, starts>>

\* getShardTransactions resolved
ShardTxsOk(i) ==
    LET t == ticks[i]
        txs == ShardTransactions(t.shards[t.sIdx])
    IN  /\ t.pc = "shardTxs"
        /\ UNCHANGED <<config, accountVars, latestSeqno, chainAcked, starts>>
        /\ NextTx(i, [t EXCEPT !.txs = txs, !.idx = 0])

\* getShardTransactions rejected: caught inside processShard
ShardTxsFail(i) ==
    LET t == ticks[i] IN
        /\ t.pc = "shardTxs"
        /\ ShardDone(i, Caught(t, "query"))
        /\ UNCHANGED <<config, accountVars, latestSeqno, chainAcked, starts>>

\* getTransaction resolved with the transaction: onTransaction(fullTx, block)
GetTxOk(i) ==
    LET t == ticks[i] IN
        /\ t.pc = "getTx"
        /\ ticks' = [ticks EXCEPT ![i] = [t EXCEPT !.pc = "callback"]]
        /\ UNCHANGED <<config, accountVars, latestSeqno, lastProcessedBlock,
                       chainAcked, starts, isProcessing, intervalId, timers,
                       lastRaised>>

\* getTransaction resolved with null: if (fullTx) skips the callback
GetTxNull(i) ==
    LET t == ticks[i] IN
        /\ t.pc = "getTx"
        /\ UNCHANGED <<config, accountVars, latestSeqno, chainAcked, starts>>
        /\ NextTx(i, t)

\* getTransaction rejected: caught inside processShard
GetTxFail(i) ==
    LET t == ticks[i] IN
        /\ t.pc = "getTx"
        /\ ShardDone(i, Caught(t, "query"))
        /\ UNCHANGED <<config, accountVars, latestSeqno, chainAcked, starts>>

\* onTransaction(fullTx, block) resolved
ShardCallbackOk(i) ==
    LET t == ticks[i] IN
        /\ impl = "BlockSubscription"
        /\ t.pc = "callback"
        /\ chainAcked' = chainAcked \cup {t.txs[t.idx]}
        /\ NextTx(i, t)
        /\ UNCHANGED <<config, accountVars, latestSeqno, starts>>

\* onTransaction(fullTx, block) rejected: caught inside processShard
ShardCallbackRaise(i) ==
    LET t == ticks[i] IN
        /\ impl = "BlockSubscription"
        /\ t.pc = "callback"
        /\ ShardDone(i, Caught(t, "raise"))
        /\ UNCHANGED <<config, accountVars, latestSeqno, chainAcked, starts>>

\* getWorkchainShards resolved: for (const shard of shards) processShard(shard)
ShardsOk(i) ==
    LET t == ticks[i]
        all == <<RootShard(t.seq)>> \o WorkchainShards(t.seq)
    IN  /\ t.pc = "shards"
        /\ NextShard(i, [t EXCEPT !.shards = all])
        /\ UNCHANGED <<config, accountVars, latestSeqno, chainAcked, starts>>

\* getWorkchainShards rejected: nothing in processBlock catches it
ShardsFail(i) ==
    LET t == ticks[i] IN
        /\ t.pc = "shards"
        /\ EndTick(i, t, 0)
        /\ UNCHANGED <<config, accountVars, latestSeqno, lastProcessedBlock,
                       chainAcked, starts>>

-----------------------------------------------------------------------------
(* Chain subscriber, Index API variant: one block per tick *)

\* getTransactionsByMasterchainBlock resolved: for (const tx of transactions)
IndexOk(i) ==
    LET t == ticks[i]
        txs == TransactionsByMasterchainBlock(t.seq)
    IN  /\ t.pc = "index"
        /\ IF Len(txs) = 0
           THEN /\ lastProcessedBlock' = t.seq
                /\ EndTick(i, t, 0)
           ELSE /\ ticks' = [ticks EXCEPT ![i] =
                       [t EXCEPT !.pc = "callback", !.txs = txs, !.idx = 1]]
                /\ UNCHANGED <<lastProcessedBlock, isProcessing, intervalId,
                               timers, lastRaised>>
        /\ UNCHANGED <<config, accountVars, latestSeqno, chainAcked, starts>>

\* the Index API query rejected, or answered with an error: the tick's catch
IndexFail(i) ==
    LET t == ticks[i] IN
        /\ t.pc = "index"
        /\ EndTick(i, t, 0)
        /\ UNCHANGED <<config, accountVars, latestSeqno, lastProcessedBlock,
                       chainAcked, starts>>

\* onTransaction(tx) resolved: the next one, or this.lastProcessedBlock = nextBlock
IndexCallbackOk(i) ==
    LET t == ticks[i] IN
        /\ impl = "IndexBlockSubscription"
        /\ t.pc = "callback"
        /\ chainAcked' = chainAcked \cup {t.txs[t.idx]}
        /\ IF t.idx < Len(t.txs)
           THEN /\ ticks' = [ticks EXCEPT ![i] = [t EXCEPT !.idx = t.idx + 1]]
                /\ UNCHANGED <<lastProcessedBlock, isProcessing, intervalId,
                               timers, lastRaised>>
           ELSE /\ lastProcessedBlock' = t.seq
                /\ EndTick(i, t, 0)
        /\ UNCHANGED <<config, accountVars, latestSeqno, starts>>

\* the exception is swallowed and the block counted as processed
IndexCallbackRaiseAdvances(i) ==
    LET t == ticks[i] IN
        /\ impl = "IndexBlockSubscription"
        /\ t.pc = "callback"
        /\ lastProcessedBlock' = t.seq
        /\ EndTick(i, t, 0)
        /\ UNCHANGED <<config, accountVars, latestSeqno, chainAcked, starts>>

\* onTransaction(tx) rejected: the tick's catch and finally
IndexCallbackRaise(i) ==
    LET t == ticks[i] IN
        /\ impl = "IndexBlockSubscription"
        /\ t.pc = "callback"
        /\ EndTick(i, t, 0)
        /\ UNCHANGED <<config, accountVars, latestSeqno, lastProcessedBlock,
                       chainAcked, starts>>

-----------------------------------------------------------------------------
(* Chain specification *)

ChainInit ==
    /\ impl \in ChainImpls
    /\ limit = 0
    /\ generation = 0
    /\ AppIdle
    /\ history = <<>>
    /\ lastProcessedLt = Undefined
    /\ lastProcessedHash = Undefined
    /\ isProcessing = FALSE
    /\ intervalId = 0
    /\ timers = {}
    /\ starts = 0
    /\ ticks = <<>>
    /\ latestSeqno \in 0..1
    /\ lastProcessedBlock = 0
    /\ chainAcked = {}
    /\ passed = <<>>
    /\ acked = <<>>
    /\ lastRaised = 0

ChainNext ==
    \/ Start
    \/ TimerFire
    \/ Stop
    \/ PublishBlock
    \/ \E i \in 1..Len(ticks) : InfoOk(i)
    \/ \E i \in 1..Len(ticks) : InfoFail(i)
    \/ \E i \in 1..Len(ticks) : ShardTxsOk(i)
    \/ \E i \in 1..Len(ticks) : ShardTxsFail(i)
    \/ \E i \in 1..Len(ticks) : GetTxOk(i)
    \/ \E i \in 1..Len(ticks) : GetTxNull(i)
    \/ \E i \in 1..Len(ticks) : GetTxFail(i)
    \/ \E i \in 1..Len(ticks) : ShardCallbackOk(i)
    \/ \E i \in 1..Len(ticks) : ShardCallbackRaise(i)
    \/ \E i \in 1..Len(ticks) : ShardsOk(i)
    \/ \E i \in 1..Len(ticks) : ShardsFail(i)
    \/ \E i \in 1..Len(ticks) : IndexOk(i)
    \/ \E i \in 1..Len(ticks) : IndexFail(i)
    \/ \E i \in 1..Len(ticks) : IndexCallbackOk(i)
    \/ \E i \in 1..Len(ticks) : IndexCallbackRaise(i)

SpecChain == ChainInit /\ [][ChainNext]_vars

-----------------------------------------------------------------------------
(* Either kind of subscriber *)

Init == AcctInit \/ ChainInit

Next == AcctNext \/ ChainNext

Spec == Init /\ [][Next]_vars

-----------------------------------------------------------------------------
(* start() called more than once on one subscriber                          *)

\* calls of start() on one subscriber
MaxStarts == 2

\* a further start(): await tick(), which returns at once while the guard is
\* set, then this.intervalId = setInterval(tick, intervalMs) over the handle
\* stored before
StartAgain ==
    /\ starts \in 1..(MaxStarts - 1)
    /\ starts' = starts + 1
    /\ IF GuardBlocks(isProcessing)
       THEN /\ intervalId' = starts + 1
            /\ timers' = timers \cup {starts + 1}
            /\ UNCHANGED <<isProcessing, ticks>>
       ELSE /\ BeginTick(starts + 1)
            /\ UNCHANGED <<intervalId, timers>>
    /\ UNCHANGED <<config, history, cursor, chainVars, passed, acked, lastRaised>>

TimersNext == Next \/ StartAgain

SpecTimers == Init /\ [][TimersNext]_vars

-----------------------------------------------------------------------------
(* Resume: stop() after a completed tick, then a new subscriber constructed   *)
(* with the cursor the old one reports                                        *)

\* getLastProcessed(): { lt: this.lastProcessedLt, hash: this.lastProcessedHash }
GetLastProcessed == <<lastProcessedLt, lastProcessedHash>>

\* getLastProcessedBlock()
GetLastProcessedBlock == lastProcessedBlock

\* subscription.stop(); new ...Subscription(client, ..., onTransaction,
\* { limit, lastLt, lastHash }) or (client, startBlock, onTransaction)
Restart ==
    /\ generation < MaxRestarts
    /\ starts > 0
    /\ ticks = <<>>
    /\ generation' = generation + 1
    /\ lastProcessedLt' = GetLastProcessed[1]
    /\ lastProcessedHash' = GetLastProcessed[2]
    /\ lastProcessedBlock' = GetLastProcessedBlock
    /\ isProcessing' = FALSE
    /\ intervalId' = 0
    /\ timers' = IF intervalId # 0 THEN timers \ {intervalId} ELSE timers
    /\ starts' = 0
    /\ UNCHANGED <<impl, limit, history, latestSeqno, chainAcked, passed, acked,
                   lastRaised, ticks, appVars>>

ResumeNext == Next \/ Restart

SpecResume == Init /\ [][ResumeNext]_vars

-----------------------------------------------------------------------------
(* Deposit handlers: the callbacks the examples give to a subscriber          *)

\* no subscriber is under study
EngineIdle ==
    /\ impl = "none"
    /\ limit = 0
    /\ generation = 0
    /\ history = <<>>
    /\ lastProcessedLt = Undefined
    /\ lastProcessedHash = Undefined
    /\ isProcessing = FALSE
    /\ intervalId = 0
    /\ timers = {}
    /\ starts = 0
    /\ ticks = <<>>
    /\ latestSeqno = 0
    /\ lastProcessedBlock = 0
    /\ chainAcked = {}
    /\ passed = <<>>
    /\ acked = <<>>
    /\ lastRaised = 0

MaxOut == 1         \* outbound messages of a transaction
MaxBatch == 2       \* transactions handed to the callback in one batch

\* message bodies: none; op 0 and a text; op 0 and no text; another op;
\* a transfer notification of at least minDeposit; one below minDeposit;
\* a body too short for loadUint(32), where the library's error message
\* contains 'slice', and where it does not
Bodies == {"none", "comment", "emptyComment", "otherOp", "notification",
           "dust", "badSlice", "badOther"}

Malformed == {"badSlice", "badOther"}

\* known: the account / source / destination is one the handler's index has
Transactions ==
    [inMessage : {FALSE}, type : {"none"}, src : {FALSE}, body : {"none"},
     outMessages : 0..MaxOut, known : BOOLEAN]
    \cup [inMessage : {TRUE}, type : {"internal"}, src : {TRUE}, body : Bodies,
          outMessages : 0..MaxOut, known : BOOLEAN]
    \cup [inMessage : {TRUE}, type : {"external-in"}, src : BOOLEAN, body : Bodies,
          outMessages : 0..MaxOut, known : BOOLEAN]

\* try { loadUint(32); if (op === 0) return loadStringTail() } catch {}
\* return undefined
ParseCommentLenient(body) ==
    IF body = "comment" THEN "text" ELSE "undefined"

\* the same, with catch (error) { if (error.message.includes('slice'))
\* return undefined; throw error }
ParseCommentStrict(body) ==
    CASE body = "comment" -> "text"
      [] body = "badOther" -> "raise"
      [] OTHER -> "undefined"

\* decodeTransferNotification / decodeInternalTransferNotification with
\* catch (error) { console.error(...); return null }
DecodeLenient(body) ==
    CASE body = "notification" -> "ok"
      [] body = "dust" -> "dust"
      [] OTHER -> "null"

\* decodeTransferNotification with catch (error) { if
\* (error.message.includes('slice')) return null; throw error }
DecodeStrict(body) ==
    CASE body = "notification" -> "ok"
      [] body = "dust" -> "dust"
      [] body = "badOther" -> "raise"
      [] OTHER -> "null"

\* the end of a jetton handler: null -> return, amount < minDeposit -> return
AfterDecode(d) ==
    CASE d = "ok" -> "deposit"
      [] d = "raise" -> "raise"
      [] OTHER -> "skip"

\* payment-processing/src/deposits.ts
DepositsOnTransaction(tx) ==
    CASE ~(tx.inMessage /\ tx.src) -> "skip"
      [] tx.outMessages > 0 -> "skip"
      [] ParseCommentLenient(tx.body) = "undefined" -> "skip"
      [] tx.type # "internal" -> "skip"
      [] OTHER -> "deposit"

\* toncoin-processing/src/deposits/invoices.ts: extractDepositInfo, onTransaction
InvoicesOnTransaction(tx) ==
    CASE ~tx.inMessage \/ tx.type # "internal" \/ ~tx.src -> "skip"
      [] tx.outMessages > 0 -> "skip"
      [] tx.body = "none" -> "skip"
      [] ParseCommentStrict(tx.body) = "raise" -> "raise"
      [] ParseCommentStrict(tx.body) = "undefined" -> "skip"
      [] OTHER -> "deposit"

\* the complete integration example: onTransaction up to processDeposit(...)
IntegrationOnTransaction(tx) ==
    CASE ~(tx.inMessage /\ tx.src) -> "skip"
      [] tx.type # "internal" -> "skip"
      [] tx.outMessages > 0 -> "skip"
      [] ParseCommentLenient(tx.body) = "undefined" -> "skip"
      [] OTHER -> "deposit"

\* payment-processing/src/deposits/unique-addresses.ts: handleTransaction,
\* processDeposit
UniqueAddressesHandle(tx) ==
    CASE tx.outMessages > 0 -> "skip"
      [] ~tx.inMessage \/ tx.type # "internal" -> "skip"
      [] ~tx.known -> "skip"
      [] ~tx.src -> "skip"
      [] OTHER -> "deposit"

\* payment-processing/src/deposits/jetton-unique-addresses.ts:
\* handleTransaction, processJettonDeposit
JettonUniqueHandle(tx) ==
    CASE ~tx.inMessage \/ tx.type # "internal" -> "skip"
      [] tx.outMessages > 0 -> "skip"
      [] ~tx.known -> "skip"
      [] tx.body = "none" -> "skip"
      [] OTHER -> AfterDecode(DecodeLenient(tx.body))

\* jetton-processing/src/deposits/jetton-unique-addresses.ts:
\* handleTransaction, processJettonDeposit
JettonProcessingHandle(tx) ==
    CASE tx.outMessages > 0 -> "skip"
      [] ~tx.inMessage \/ tx.type # "internal" -> "skip"
      [] ~tx.known -> "skip"
      [] tx.body = "none" -> "skip"
      [] OTHER -> AfterDecode(DecodeStrict(tx.body))

\* the single-wallet jetton handler made by createTransactionHandler
CreateTransactionHandler(tx) ==
    CASE ~tx.inMessage \/ tx.type # "internal" -> "skip"
      [] ~tx.src -> "skip"
      [] ~tx.known -> "skip"
      [] tx.body = "none" -> "skip"
      [] OTHER -> AfterDecode(DecodeLenient(tx.body))

\* the jetton invoices handler: extractJettonDeposit, onTransaction
JettonInvoicesOnTransaction(tx) ==
    CASE ~tx.inMessage \/ tx.type # "internal" \/ ~tx.src \/ tx.body = "none"
            -> "skip"
      [] ~tx.known -> "skip"
      [] OTHER -> AfterDecode(DecodeStrict(tx.body))

Handlers == {"deposits", "invoices", "integration", "unique-addresses",
             "jetton-unique-addresses", "jetton-processing",
             "createTransactionHandler", "jetton-invoices"}

\* what handler h does with transaction tx
Classify(h, tx) ==
    CASE h = "deposits" -> DepositsOnTransaction(tx)
      [] h = "invoices" -> InvoicesOnTransaction(tx)
      [] h = "integration" -> IntegrationOnTransaction(tx)
      [] h = "unique-addresses" -> UniqueAddressesHandle(tx)
      [] h = "jetton-unique-addresses" -> JettonUniqueHandle(tx)
      [] h = "jetton-processing" -> JettonProcessingHandle(tx)
      [] h = "createTransactionHandler" -> CreateTransactionHandler(tx)
      [] h = "jetton-invoices" -> JettonInvoicesOnTransaction(tx)

\* for (const tx of ...) { await this.onTransaction(tx) } inside the try of
\* tick / processShard: every transaction is handed over, whatever its
\* messages; a raise leaves the loop
Deliver(h) ==
    /\ handler = h
    /\ ~aborted
    /\ delivered < MaxBatch
    /\ \E tx \in Transactions :
          /\ lastTx' = tx
          /\ lastOutcome' = Classify(h, tx)
          /\ aborted' = (Classify(h, tx) = "raise")
    /\ delivered' = delivered + 1
    /\ UNCHANGED <<handler, engineVars, dbVars, bootVars, upgradeVars, subs, pair>>

DepositInit ==
    /\ EngineIdle
    /\ DbEmpty
    /\ Booted
    /\ NoContract
    /\ NoSubs /\ NoPair
    /\ handler \in Handlers
    /\ delivered = 0
    /\ lastTx = Undefined
    /\ lastOutcome = "none"
    /\ aborted = FALSE

DepositNext ==
    \/ Deliver("deposits")
    \/ Deliver("invoices")
    \/ Deliver("integration")
    \/ Deliver("unique-addresses")
    \/ Deliver("jetton-unique-addresses")
    \/ Deliver("jetton-processing")
    \/ Deliver("createTransactionHandler")
    \/ Deliver("jetton-invoices")

SpecDeposit == DepositInit /\ [][DepositNext]_vars

-----------------------------------------------------------------------------
(* The integration example: processDeposit over the mock database             *)

MaxPayments == 2    \* payment requests created
MaxHashes == 2      \* distinct transactions that reach processDeposit

\* the amounts a payment request or a transfer carries, in nanotons
Amounts == {1, 2}

Users == {101, 102}

\* createPayment(userId, expectedAmount): the UUID is a fresh one
CreatePayment ==
    /\ Len(payments) < MaxPayments
    /\ \E u \in Users, a \in Amounts :
          payments' = Append(payments,
              [uuid |-> Len(payments) + 1, userId |-> u, expectedAmount |-> a,
               processed |-> FALSE, transactionHash |-> 0])
    /\ UNCHANGED <<processedHashes, credits, lastCall, engineVars, depositVars,
                   bootVars, upgradeVars, subs, pair>>

\* a payment is never found processed
PaymentProcessedForgotten(payment) == FALSE

\* if (payment.processed) return
PaymentProcessed(payment) == payment.processed

\* the set of credited hashes is never consulted
IsTransactionProcessedForgotten(txHash) == FALSE

\* isTransactionProcessed(txHash)
IsTransactionProcessed(txHash) == txHash \in processedHashes

\* findPaymentByUUID(uuid): this.payments.get(uuid)
FindPaymentByUUID(uuid) ==
    IF uuid \in 1..Len(payments) THEN payments[uuid] ELSE Undefined

\* where processDeposit(amount, sender, comment, txHash) ends
DepositEnd(amount, comment, txHash) ==
    CASE IsTransactionProcessed(txHash) -> "transaction already processed"
      [] FindPaymentByUUID(comment) = Undefined -> "payment not found"
      [] PaymentProcessed(FindPaymentByUUID(comment)) -> "payment already processed"
      [] FindPaymentByUUID(comment).expectedAmount # amount -> "amount mismatch"
      [] OTHER -> "credited"

\* processDeposit: the comment is the UUID of a payment or of none (0); the
\* last branch is markAsProcessed(comment, txHash) and creditUserAccount
ProcessDeposit ==
    \E amount \in Amounts, comment \in 0..MaxPayments, txHash \in 1..MaxHashes :
        LET end == DepositEnd(amount, comment, txHash) IN
        /\ lastCall' = [amount |-> amount, comment |-> comment,
                        txHash |-> txHash, end |-> end]
        /\ IF end = "credited"
           THEN /\ payments' = [payments EXCEPT ![comment].processed = TRUE,
                                                ![comment].transactionHash = txHash]
                /\ processedHashes' = processedHashes \cup {txHash}
                /\ credits' = Append(credits,
                       [uuid |-> comment, userId |-> payments[comment].userId,
                        amount |-> amount, txHash |-> txHash])
           ELSE UNCHANGED <<payments, processedHashes, credits>>
        /\ UNCHANGED <<engineVars, depositVars, bootVars, upgradeVars, subs, pair>>

DbInit ==
    EngineIdle /\ DepositIdle /\ DbEmpty /\ Booted /\ NoContract /\ NoSubs /\ NoPair

DbNext == CreatePayment \/ ProcessDeposit

SpecDb == DbInit /\ [][DbNext]_vars

-----------------------------------------------------------------------------
(* Startup: main() loads the configuration, constructs the subscriber and     *)
(* starts it                                                                  *)

\* the two loadConfig of the repository: one requires API_KEY and
\* WALLET_ADDRESS, the other falls back to placeholders
Loaders == {"required", "defaults"}

\* process.env: API_KEY is set or not; WALLET_ADDRESS is not set, an address
\* or a string that is no address
Environments ==
    [apiKey : BOOLEAN, walletAddress : {"unset", "valid", "invalid"}]

\* loadConfig(): if (!apiKey) throw ...; if (!walletAddress) throw ...
LoadRequired(e) ==
    IF ~e.apiKey \/ e.walletAddress = "unset"
    THEN [raised |-> TRUE, apiKey |-> "none", walletAddress |-> "none"]
    ELSE [raised |-> FALSE, apiKey |-> "env", walletAddress |-> e.walletAddress]

\* loadConfig(): process.env.API_KEY || 'YOUR_API_KEY_HERE',
\* process.env.WALLET_ADDRESS || 'UQB7...5I'
LoadDefaults(e) ==
    [raised |-> FALSE,
     apiKey |-> IF e.apiKey THEN "env" ELSE "placeholder",
     walletAddress |-> IF e.walletAddress = "unset" THEN "placeholder"
                       ELSE e.walletAddress]

\* const config = loadConfig()
LoadConfig ==
    /\ boot = "main"
    /\ LET c == IF loader = "required" THEN LoadRequired(env)
                ELSE LoadDefaults(env) IN
       /\ boot' = IF c.raised THEN "raised" ELSE "configured"
       /\ loaded' = c
    /\ UNCHANGED <<loader, env, engineVars, depositVars, dbVars, upgradeVars,
                   subs, pair>>

\* Address.parse(accountAddress) raises on a string that is no address
\* ('UQB7...5I' is none)
AddressParses(a) == a = "valid"

\* new AccountSubscription(client, walletAddress, ...) /
\* createAccountSubscription(client, walletAddress, ...)
Construct ==
    /\ boot = "configured"
    /\ boot' = IF AddressParses(loaded.walletAddress) THEN "constructed"
               ELSE "raised"
    /\ UNCHANGED <<loader, env, loaded, engineVars, depositVars, dbVars,
                   upgradeVars, subs, pair>>

BootInit ==
    /\ impl \in AccountImpls
    /\ limit \in PageSizes
    /\ generation = 0
    /\ \E n \in 0..MaxInitial : history = [k \in 1..n |-> Tx(LtOf(n + 1 - k))]
    /\ lastProcessedLt = Undefined
    /\ lastProcessedHash = Undefined
    /\ isProcessing = FALSE
    /\ intervalId = 0
    /\ timers = {}
    /\ starts = 0
    /\ ticks = <<>>
    /\ latestSeqno = 0
    /\ lastProcessedBlock = 0
    /\ chainAcked = {}
    /\ passed = <<>>
    /\ acked = <<>>
    /\ lastRaised = 0
    /\ DepositIdle
    /\ DbEmpty
    /\ NoContract
    /\ NoSubs /\ NoPair
    /\ loader \in Loaders
    /\ env \in Environments
    /\ loaded = Undefined
    /\ boot = "main"

\* await subscription.start(...) and what follows come after the constructor
BootNext ==
    \/ LoadConfig
    \/ Construct
    \/ (boot = "constructed" /\ Start)
    \/ (boot = "constructed" /\ TimerFire)
    \/ (boot = "constructed" /\ \E i \in 1..Len(ticks) : FetchOk(i))
    \/ (boot = "constructed" /\ \E i \in 1..Len(ticks) : FetchFail(i))
    \/ (boot = "constructed" /\ \E i \in 1..Len(ticks) : CallbackOk(i))

SpecBoot == BootInit /\ [][BootNext]_vars

-----------------------------------------------------------------------------
(* The DelayedUpgrade contract (contract-dev/Upgrading).  Its storage is   *)
(* the one the wrapper builds: the admin's address, the timeout and the    *)
(* current request.  The three messages are the ones the wrapper sends;    *)
(* what the contract does with them is taken from the README and from the  *)
(* tests, which give the exit code of every refused message.               *)

\* the longest timeout a contract is deployed with
MaxTimeout == 2

\* the latest time the chain reaches
MaxNow == 4

\* the number of messages sent to the contract
MaxMsgs == 3

\* exit codes of the refused messages
ExitNotAdmin == 100
ExitAlreadyPending == 101
ExitNothingToReject == 201
ExitNothingToApprove == 301
ExitTooEarly == 302

\* the deployer is the admin; the user is anybody else
Senders == {"deployer", "user"}

\* storeMaybeRef(newCode), storeMaybeRef(newData): either may be absent
NewCodes == {"null", "upgradeCode"}
NewDatas == {"null", "upgradeData"}

\* the request slot when it is empty (getCurrentRequest returns null)
NoRequest ==
    [pending |-> FALSE, newCode |-> "null", newData |-> "null", timestamp |-> 0]

\* createFromConfig: admin, timeout and an empty request slot
ContractFromConfig(timeout) ==
    [adminAddress |-> "deployer",
     timeout |-> timeout,
     currentRequest |-> NoRequest,
     code |-> "DelayedUpgrade",
     data |-> "config"]

\* the code that handles the three messages is still the deployed one
Deployed ==
    /\ contract # Undefined
    /\ contract.code = "DelayedUpgrade"
    /\ contract.data = "config"

HasRequestNever(c) == FALSE

\* getCurrentRequest: is a request stored?
HasRequest(c) == c.currentRequest.pending

TimeLockOpen(c, t) == {TRUE}

\* may a pending request be approved at time t?  Not before its timestamp
\* plus the timeout; after it, yes; at that very second the documents do
\* not say, so either.
TimeLock(c, t) ==
    IF t < c.currentRequest.timestamp + c.timeout THEN {FALSE}
    ELSE IF t = c.currentRequest.timestamp + c.timeout THEN {TRUE, FALSE}
    ELSE {TRUE}

\* one handled message joins the log
Handle(op, sender, exitCode) ==
    results' = Append(results,
                      [op |-> op, sender |-> sender, exitCode |-> exitCode,
                       at |-> chainNow])

\* sendRequestUpgrade: only the admin, and only into an empty slot
RequestUpgrade ==
    /\ Deployed
    /\ Len(results) < MaxMsgs
    /\ \E sender \in Senders, newCode \in NewCodes, newData \in NewDatas :
        IF sender # contract.adminAddress
        THEN /\ Handle("RequestUpgrade", sender, ExitNotAdmin)
             /\ UNCHANGED contract
        ELSE IF HasRequest(contract)
        THEN /\ Handle("RequestUpgrade", sender, ExitAlreadyPending)
             /\ UNCHANGED contract
        ELSE /\ Handle("RequestUpgrade", sender, 0)
             /\ contract' = [contract EXCEPT !.currentRequest =
                    [pending |-> TRUE, newCode |-> newCode,
                     newData |-> newData, timestamp |-> chainNow]]
    /\ UNCHANGED <<chainNow, engineVars, depositVars, dbVars, bootVars, subs, pair>>

\* sendRejectUpgrade: the admin empties the slot, at any time
RejectUpgrade ==
    /\ Deployed
    /\ Len(results) < MaxMsgs
    /\ \E sender \in Senders :
        IF sender # contract.adminAddress
        THEN /\ Handle("RejectUpgrade", sender, ExitNotAdmin)
             /\ UNCHANGED contract
        ELSE IF ~HasRequest(contract)
        THEN /\ Handle("RejectUpgrade", sender, ExitNothingToReject)
             /\ UNCHANGED contract
        ELSE /\ Handle("RejectUpgrade", sender, 0)
             /\ contract' = [contract EXCEPT !.currentRequest = NoRequest]
    /\ UNCHANGED <<chainNow, engineVars, depositVars, dbVars, bootVars, subs, pair>>

\* sendApproveUpgrade: the admin applies the pending request once the time
\* lock is open (setCodePostponed for the code, the new data as storage)
ApproveUpgrade ==
    /\ Deployed
    /\ Len(results) < MaxMsgs
    /\ \E sender \in Senders :
        IF sender # contract.adminAddress
        THEN /\ Handle("ApproveUpgrade", sender, ExitNotAdmin)
             /\ UNCHANGED contract
        ELSE IF ~HasRequest(contract)
        THEN /\ Handle("ApproveUpgrade", sender, ExitNothingToApprove)
             /\ UNCHANGED contract
        ELSE \E open \in TimeLock(contract, chainNow) :
            IF ~open
            THEN /\ Handle("ApproveUpgrade", sender, ExitTooEarly)
                 /\ UNCHANGED contract
            ELSE /\ Handle("ApproveUpgrade", sender, 0)
                 /\ contract' = [contract EXCEPT
                        !.code = IF contract.currentRequest.newCode = "null"
                                 THEN @
                                 ELSE contract.currentRequest.newCode,
                        !.data = IF contract.currentRequest.newData = "null"
                                 THEN @
                                 ELSE contract.currentRequest.newData,
                        !.currentRequest = NoRequest]
    /\ UNCHANGED <<chainNow, engineVars, depositVars, dbVars, bootVars, subs, pair>>

\* blockchain.now moves on
AdvanceTime ==
    /\ contract # Undefined
    /\ chainNow < MaxNow
    /\ chainNow' = chainNow + 1
    /\ UNCHANGED <<contract, results, engineVars, depositVars, dbVars,
                   bootVars, subs, pair>>

\* setup(): the contract is deployed by the admin with its timeout
UpgradeInit ==
    /\ EngineIdle
    /\ DepositIdle
    /\ DbEmpty
    /\ Booted
    /\ NoSubs /\ NoPair
    /\ \E timeout \in 1..MaxTimeout : contract = ContractFromConfig(timeout)
    /\ chainNow = 1
    /\ results = <<>>

UpgradeNext ==
    \/ RequestUpgrade
    \/ RejectUpgrade
    \/ ApproveUpgrade
    \/ AdvanceTime

SpecUpgrade == UpgradeInit /\ [][UpgradeNext]_vars

-----------------------------------------------------------------------------
(* Several subscribers side by side.  createAccountSubscription and        *)
(* createBlockSubscription keep their cursor, guard and timer in the `let` *)
(* variables of the closure each call creates, so every instance is a      *)
(* record of its own; subs.state[i] is the record of instance i and        *)
(* subs.feed[i] what the chain holds for it (the transactions of its       *)
(* account, or the masterchain head).  Each block carries one transaction  *)
(* in the masterchain shard and has no further shards.                     *)

\* the instances that run side by side
Instances == {"first", "second"}

Kinds == {"account", "chain"}

\* how many transactions an account, or blocks the chain, can come to hold
MaxFeed == 2

\* how many deliveries of one instance are followed (a block whose shard
\* query fails is delivered again on the next tick, without end)
MaxDeliveries == 2

\* createAccountSubscription / createBlockSubscription: the closure's state
\* after the call, before start()
Created(kind) ==
    [kind |-> kind,
     last |-> 0,
     isProcessing |-> FALSE,
     intervalId |-> FALSE,
     started |-> "no",
     pc |-> "idle",
     attempt |-> 1,
     target |-> 0,
     queue |-> <<>>,
     delivered |-> <<>>]

\* the first await of tick
FirstAwait(kind) == IF kind = "account" THEN "fetch" ELSE "info"

\* tick passes its guard and sets it
EnterTick(s) ==
    [s EXCEPT !.isProcessing = TRUE, !.pc = FirstAwait(s.kind), !.attempt = 1]

\* finally { isProcessing = false }; a start() that awaited this tick then
\* arms the timer
LeaveTick(s) ==
    [s EXCEPT !.isProcessing = FALSE,
              !.pc = "idle",
              !.attempt = 1,
              !.queue = <<>>,
              !.intervalId = IF s.started = "starting" THEN TRUE ELSE @,
              !.started = IF s.started = "starting" THEN "yes" ELSE @]

\* the numbers a+1 .. b in rising order
Rising(a, b) == [k \in 1..(IF b > a THEN b - a ELSE 0) |-> a + k]

\* start(): await tick(), then setInterval
SuccStart(s) ==
    IF s.started = "no" THEN {EnterTick([s EXCEPT !.started = "starting"])}
    ELSE {}

\* the timer fires; tick returns at once while the guard is set
SuccTick(s) ==
    IF s.intervalId /\ ~s.isProcessing THEN {EnterTick(s)} ELSE {}

\* stop(): clearInterval when a timer is armed
SuccStop(s) ==
    IF s.intervalId THEN {[s EXCEPT !.intervalId = FALSE]} ELSE {}

\* the awaited query answers; n is what the chain holds for the instance
SuccQueryOk(s, n) ==
    CASE s.pc = "fetch" ->
            IF n > s.last
            THEN {[s EXCEPT !.pc = "callback", !.queue = Rising(s.last, n)]}
            ELSE {LeaveTick(s)}
      [] s.pc = "info" ->
            IF n <= s.last
            THEN {LeaveTick(s)}
            ELSE {[s EXCEPT !.pc = "shardTxs", !.target = n,
                            !.queue = <<s.last + 1>>]}
      [] s.pc = "shardTxs" -> {[s EXCEPT !.pc = "callback"]}
      [] s.pc = "shards" ->
            IF Head(s.queue) < s.target
            THEN {[s EXCEPT !.pc = "shardTxs", !.last = Head(s.queue),
                            !.queue = <<Head(s.queue) + 1>>]}
            ELSE {LeaveTick([s EXCEPT !.last = Head(s.queue)])}
      [] OTHER -> {}

\* the awaited query raises
SuccQueryFail(s) ==
    CASE s.pc = "fetch" ->
            IF s.attempt < FnMaxAttempts
            THEN {[s EXCEPT !.attempt = @ + 1]}
            ELSE {LeaveTick(s)}
      [] s.pc = "info" -> {LeaveTick(s)}
      [] s.pc = "shardTxs" -> {[s EXCEPT !.pc = "shards"]}
      [] s.pc = "shards" -> {LeaveTick(s)}
      [] OTHER -> {}

\* await onTransaction(tx) returns
SuccCallbackOk(s) ==
    IF s.pc # "callback" THEN {}
    ELSE IF s.kind = "chain"
    THEN {[s EXCEPT !.pc = "shards",
                    !.delivered = Append(@, Head(s.queue))]}
    ELSE LET t == [s EXCEPT !.last = Head(s.queue),
                            !.delivered = Append(@, Head(s.queue)),
                            !.queue = Tail(@)]
         IN  IF t.queue = <<>> THEN {LeaveTick(t)} ELSE {t}

\* await onTransaction(tx) raises
SuccCallbackRaise(s) ==
    IF s.pc # "callback" THEN {}
    ELSE IF s.kind = "chain" THEN {[s EXCEPT !.pc = "shards"]}
    ELSE {LeaveTick(s)}

\* every step an instance can take on its own
SoloSteps(s, n) ==
    SuccStart(s) \cup SuccTick(s) \cup SuccStop(s) \cup SuccQueryOk(s, n)
        \cup SuccQueryFail(s) \cup SuccCallbackOk(s) \cup SuccCallbackRaise(s)

PutSharedGuard(ss, i, n) ==
    [ss EXCEPT !.state = [j \in Instances |->
        IF j = i THEN n ELSE [ss.state[j] EXCEPT !.isProcessing = n.isProcessing]]]

\* instance i writes the variables of its own closure
Put(ss, i, n) == [ss EXCEPT !.state[i] = n]

\* the rest of the model stands still
FleetFrame ==
    UNCHANGED <<engineVars, depositVars, dbVars, bootVars, upgradeVars, pair>>

SubStart ==
    /\ \E i \in Instances : \E n \in SuccStart(subs.state[i]) :
        subs' = Put(subs, i, n)
    /\ FleetFrame

SubTick ==
    /\ \E i \in Instances : \E n \in SuccTick(subs.state[i]) :
        subs' = Put(subs, i, n)
    /\ FleetFrame

SubStop ==
    /\ \E i \in Instances : \E n \in SuccStop(subs.state[i]) :
        subs' = Put(subs, i, n)
    /\ FleetFrame

SubQueryOk ==
    /\ \E i \in Instances : \E n \in SuccQueryOk(subs.state[i], subs.feed[i]) :
        subs' = Put(subs, i, n)
    /\ FleetFrame

SubQueryFail ==
    /\ \E i \in Instances : \E n \in SuccQueryFail(subs.state[i]) :
        subs' = Put(subs, i, n)
    /\ FleetFrame

SubCallbackOk ==
    /\ \E i \in Instances : \E n \in SuccCallbackOk(subs.state[i]) :
        /\ Len(subs.state[i].delivered) < MaxDeliveries
        /\ subs' = Put(subs, i, n)
    /\ FleetFrame

SubCallbackRaise ==
    /\ \E i \in Instances : \E n \in SuccCallbackRaise(subs.state[i]) :
        subs' = Put(subs, i, n)
    /\ FleetFrame

\* the chain moves on: a transaction joins an account, or a block the chain
FeedGrows ==
    /\ \E i \in Instances :
        /\ subs.feed[i] < MaxFeed
        /\ subs' = [subs EXCEPT !.feed[i] = @ + 1]
    /\ FleetFrame

\* main(): one subscriber per account, or a chain subscriber next to account
\* subscribers
FleetInit ==
    /\ EngineIdle
    /\ DepositIdle
    /\ DbEmpty
    /\ Booted
    /\ NoContract
    /\ NoPair
    /\ \E kinds \in [Instances -> Kinds] :
        /\ \E i \in Instances : kinds[i] = "account"
        /\ subs = [state |-> [i \in Instances |-> Created(kinds[i])],
                   feed |-> [i \in Instances |-> 0]]

FleetNext ==
    \/ SubStart
    \/ SubTick
    \/ SubStop
    \/ SubQueryOk
    \/ SubQueryFail
    \/ SubCallbackOk
    \/ SubCallbackRaise
    \/ FeedGrows

SpecFleet == FleetInit /\ [][FleetNext]_vars

-----------------------------------------------------------------------------
(* The two account subscribers side by side: the class and the closure are *)
(* given the same account, page size and resume cursor, and every tick     *)
(* meets the same outcomes (which queries fail, which callback raises).    *)
(* A tick is run from its first query to its finally.                      *)

\* ticks run by each of the two
MaxPairTicks == 2

\* query outcomes one tick is given (queries past them succeed)
MaxOutcomes == 3

\* transactions the account comes to hold
MaxPairHist == 3

\* the outcome of the next query, and the outcomes left after it
NextOutcome(outs) == IF outs = <<>> THEN TRUE ELSE Head(outs)
RestOutcomes(outs) == IF outs = <<>> THEN <<>> ELSE Tail(outs)

RECURSIVE FetchNewTransactions(_, _, _, _, _, _, _, _)
\* fetchNewTransactions(offsetLt, offsetHash, retryCount / attemptNumber)
FetchNewTransactions(im, hist, lim, cur, offLt, offHash, attempt, outs) ==
    IF ~NextOutcome(outs)
    THEN IF RetryAgain(im, attempt)
         THEN FetchNewTransactions(im, hist, lim, cur, offLt, offHash,
                                   NextAttempt(im, attempt), RestOutcomes(outs))
         ELSE <<>>
    ELSE LET page == GetTransactions(hist, lim, offLt, offHash)
             fresh == ScanPage(page, cur[1], cur[2])
             last == page[Len(page)]
         IN  IF Len(page) = 0 THEN <<>>
             ELSE IF HitCursor(page, cur[1], cur[2]) THEN fresh
             ELSE IF HasMorePages(page, lim)
             THEN fresh \o FetchNewTransactions(im, hist, lim, cur,
                               ToString(last.lt), Base64(last.hash),
                               PageAttempt(im, attempt), RestOutcomes(outs))
             ELSE fresh

\* { lt: tx.lt.toString(), hash: tx.hash().toString('base64') }
CursorAt(tx) == <<ToString(tx.lt), Base64(tx.hash)>>

\* one tick: the transactions handed to the callback, in order, and the
\* cursor when the tick ends; the raiseAt-th callback of the tick raises
TickOf(im, hist, lim, cur, outs, raiseAt) ==
    LET new == FetchNewTransactions(im, hist, lim, cur, Undefined, Undefined,
                                    InitialAttempt(im), outs)
        ordered == Reverse(new)
        raises == raiseAt \in 1..Len(ordered)
        handed == IF raises THEN SubSeq(ordered, 1, raiseAt) ELSE ordered
        returned == IF raises THEN raiseAt - 1 ELSE Len(ordered)
    IN  [passed |-> [k \in 1..Len(handed) |-> handed[k].lt],
         cursor |-> IF Len(new) = 0 THEN cur
                    ELSE IF CursorPerDelivery(im)
                    THEN IF returned = 0 THEN cur ELSE CursorAt(ordered[returned])
                    ELSE IF raises THEN cur ELSE CursorAt(new[1])]

\* the patterns of query outcomes a tick can meet
FetchPatterns == UNION {[1..n -> BOOLEAN] : n \in 0..MaxOutcomes}

PairFrame ==
    UNCHANGED <<engineVars, depositVars, dbVars, bootVars, upgradeVars, subs>>

\* the timer of both fires, and both ticks meet the same outcomes
PairTick ==
    /\ pair.ticks < MaxPairTicks
    /\ \E outs \in FetchPatterns, raiseAt \in 0..pair.limit :
        LET res == [im \in AccountImpls |->
                       TickOf(im, pair.history, pair.limit, pair.cursor[im],
                              outs, raiseAt)]
        IN  pair' = [pair EXCEPT
                !.ticks = @ + 1,
                !.cursor = [im \in AccountImpls |-> res[im].cursor],
                !.passed = [im \in AccountImpls |->
                               pair.passed[im] \o res[im].passed],
                !.last = [outs |-> outs, raiseAt |-> raiseAt]]
    /\ PairFrame

\* a transaction joins the account
PairAppendTx ==
    /\ Len(pair.history) < MaxPairHist
    /\ pair' = [pair EXCEPT !.history = <<Tx(NextLt(pair.history))>> \o @]
    /\ PairFrame

\* both subscribers are constructed with the same options
PairInit ==
    /\ EngineIdle
    /\ DepositIdle
    /\ DbEmpty
    /\ Booted
    /\ NoContract
    /\ NoSubs
    /\ \E n \in 0..MaxInitial, lim \in PageSizes :
        LET hist == [k \in 1..n |-> Tx(LtOf(n + 1 - k))] IN
        \E c \in {<<Undefined, Undefined>>} \cup {CursorAt(hist[k]) : k \in 1..n} :
            pair = [history |-> hist,
                    limit |-> lim,
                    cursor |-> [im \in AccountImpls |-> c],
                    passed |-> [im \in AccountImpls |-> <<>>],
                    ticks |-> 0,
                    last |-> [outs |-> <<>>, raiseAt |-> 0]]

PairNext == PairTick \/ PairAppendTx

SpecPair == PairInit /\ [][PairNext]_vars

-----------------------------------------------------------------------------
(* Properties *)

TickIds == 1..Len(ticks)

\* the logical time the resume cursor names (0 when there is none)
CursorLt == ParseLt(lastProcessedLt)

\* transactions that joined the account after construction
Appended == {history[k].lt : k \in {j \in 1..Len(history) : history[j].lt > LtOf(MaxInitial)}}

AckedSet == {acked[k] : k \in 1..Len(acked)}

StrictlyIncreasing(q) == \A k \in 1..(Len(q) - 1) : q[k] < q[k + 1]

\* a tick body ends in this step
TickEnds == Len(ticks') < Len(ticks)

\* C1: account mode: a tick in which a page fetch failed on every attempt, at
\* any depth of pagination, hands no transaction to the callback (and so leaves
\* the cursor where it was).
C1_ExhaustedTickDeliversNothing ==
    \A i \in TickIds : ticks[i].exhausted => ticks[i].pc # "callback"

\* C2: chain mode: an error in a shard at block n that comes after an earlier
\* shard of n was drained ends the tick there: no tick body goes on (to later
\* shards, to setting the cursor to n) after such an error.
C2_LateShardFailureAbortsTick == \A i \in TickIds : ~ticks[i].lateCaught

C4_NoAppendedTxBehindCursor ==
    \A lt \in Appended : lt <= CursorLt => lt \in AckedSet

\* C5: chain mode: whenever lastProcessedBlock >= n, the callback has returned
\* for every transaction of every shard of block n.
C5_CursorImpliesDelivered ==
    \A n \in 1..lastProcessedBlock : TxsAt(n) \subseteq chainAcked

\* the callback raised on the transaction the tick body i is awaiting
RaiseStep(i) ==
    /\ impl \in AccountImpls
    /\ ticks[i].pc = "callback"
    /\ TickEnds
    /\ acked' = acked

\* C6, the abort: when the callback raises on t the tick body ends, nothing
\* more is handed to the callback, the guard is released and the cursor stays.
C6_RaiseAborts ==
    \A i \in TickIds :
        RaiseStep(i) =>
            /\ passed' = passed
            /\ isProcessing' = FALSE
            /\ UNCHANGED cursor
            /\ lastRaised' = ticks[i].ordered[ticks[i].idx].lt

\* the tick body i handed t to the callback before it ended
HandedOver(i, lt) ==
    /\ ticks[i].pc = "callback"
    /\ \E k \in 1..ticks[i].idx : ticks[i].ordered[k].lt = lt

C7_ChainRaiseAbortsTick == \A i \in TickIds : ticks[i].caught # "raise"

\* C8: account mode: once a callback has returned, the resume cursor is the
\* (lt, hash) of the transaction of the latest callback that returned.
C8_CursorIsLastAcked ==
    Len(acked) > 0 =>
        /\ lastProcessedLt = ToString(acked[Len(acked)])
        /\ lastProcessedHash = Base64(HashOf(acked[Len(acked)]))

\* C9: no two tick bodies of one subscriber are in progress at the same time.
C9_AtMostOneTick == Len(ticks) <= 1

\* a timer firing met a tick body in progress
C9_Witness == \E i \in TickIds : ticks[i].dropped

\* a timer firing is dropped in this step
DropStep(i) ==
    /\ Len(ticks') = Len(ticks)
    /\ ~ticks[i].dropped
    /\ ticks'[i].dropped

\* C10: a timer firing that meets a running tick is dropped: it issues no
\* query, invokes no callback, changes neither cursor nor guard, begins no tick
\* body, and no tick body begins when the running one ends.
C10_FiringDuringTickIsDropped ==
    [][/\ \A i \in TickIds :
             DropStep(i) =>
                 /\ ticks' = [ticks EXCEPT ![i].dropped = TRUE]
                 /\ UNCHANGED <<config, history, cursor, chainVars, passed, acked,
                                lastRaised, isProcessing, starts, intervalId,
                                timers>>
       /\ isProcessing => Len(ticks') <= Len(ticks)
       /\ (\E i \in TickIds : ticks[i].dropped) /\ TickEnds => ticks' = <<>>]_vars

\* a callback is pending in a tick body that a timer firing met
C10_Witness ==
    \E i \in TickIds : ticks[i].dropped /\ ticks[i].pc = "callback"

\* stop() found the timer handle and cleared it in this step
StopClears == intervalId # 0 /\ intervalId' = 0

\* stop() has been called on the started subscriber: it cleared the handle, or
\* it was called while start() awaited its tick
StopWasCalled ==
    /\ starts > 0
    /\ \/ intervalId = 0 /\ \A i \in TickIds : ticks[i].fromStart = 0
       \/ \E i \in TickIds : ticks[i].stopCalled

\* C11: stop() leaves the tick body in flight alone, and once stop() has been
\* called (also while start() awaits its first tick) no tick body begins and no
\* timer is left armed to begin one.
C11_StopPreventsRecurrence ==
    [][/\ StopClears =>
             /\ timers' = {}
             /\ ticks' = ticks
             /\ isProcessing' = isProcessing
       /\ StopWasCalled =>
             /\ Len(ticks') <= Len(ticks)
             /\ timers' = {}]_vars

\* the account's transactions with logical time in (lo, hi], oldest first
Between(lo, hi) ==
    Reverse(SelectSeq(history, LAMBDA tx : tx.lt > lo /\ tx.lt <= hi))

\* C12: account mode: a tick whose scan reached the resume cursor's
\* transaction fetches no further page, and the batch it starts to deliver is
\* exactly the transactions newer than the cursor, oldest first.
C12_TruncatesAtCursor ==
    \A i \in TickIds :
        (impl \in AccountImpls /\ ticks[i].hit) =>
            /\ ticks[i].pc = "callback"
            /\ ticks[i].idx = 1 =>
                  ticks[i].ordered = Between(CursorLt, ticks[i].coll[1].lt)

\* the scan reached the cursor on the second page, with two newer transactions
C12_Witness ==
    \E i \in TickIds :
        /\ ticks[i].hit
        /\ ticks[i].offLt # Undefined
        /\ Len(ticks[i].ordered) = 2
        /\ ticks[i].idx = 1

\* C13: account mode: no transaction handed to the callback has a logical
\* time at or below the resume cursor's.
C13_OnlyNewerThanCursor ==
    \A i \in TickIds :
        (impl \in AccountImpls /\ ticks[i].pc = "callback") =>
            ticks[i].ordered[ticks[i].idx].lt > CursorLt

\* every transaction of the account, oldest first
WholeHistory == [k \in 1..Len(history) |-> history[Len(history) + 1 - k].lt]

\* C14: with no resume cursor and every query answered, the one tick of
\* start() collects all N transactions of the account, whatever N and the page
\* size, and hands each to the callback once, in ascending logical time.
C14_OneTickDeliversAll ==
    /\ \A i \in TickIds :
          ticks[i].pc = "callback" =>
              /\ [k \in 1..Len(ticks[i].ordered) |-> ticks[i].ordered[k].lt]
                    = WholeHistory
              /\ passed = SubSeq(WholeHistory, 1, ticks[i].idx)
    /\ (starts > 0 /\ ticks = <<>>) =>
          /\ passed = WholeHistory
          /\ acked = WholeHistory

\* the tick ended on an account whose size is twice the page size: the last
\* page was full and the page after it empty
C14_Witness ==
    /\ starts > 0
    /\ ticks = <<>>
    /\ limit >= 2
    /\ Len(history) = 2 * limit
    /\ Len(acked) = Len(history)

CursorMoves == lastProcessedBlock' # lastProcessedBlock

\* C16: chain mode: the block cursor only ever moves by +1, to the block the
\* tick body has just processed, never past the latest block that tick saw;
\* and the block a tick body works on is always the one after the cursor.
C16_OneBlockAtATime ==
    /\ [][CursorMoves =>
             /\ lastProcessedBlock' = lastProcessedBlock + 1
             /\ \E i \in TickIds :
                   /\ ticks[i].seq = lastProcessedBlock'
                   /\ lastProcessedBlock' <= ticks[i].target]_vars
    /\ [](\A i \in TickIds :
            (impl \in ChainImpls /\ ticks[i].pc # "info") =>
                /\ ticks[i].seq = lastProcessedBlock + 1
                /\ ticks[i].seq <= ticks[i].target
                /\ ticks[i].target <= latestSeqno)

\* one tick body, two blocks behind, is on its second block
C16_Witness ==
    \E i \in TickIds :
        /\ impl = "BlockSubscription"
        /\ ticks[i].fromStart > 0
        /\ lastProcessedBlock = 1
        /\ ticks[i].seq = 2
        /\ ticks[i].target = 2

\* q is a prefix of r
IsPrefix(q, r) == Len(q) <= Len(r) /\ q = SubSeq(r, 1, Len(q))

\* C17: chain mode: in a pass over block n the transactions of the root shard
\* block and of every shard block the shard list names are asked for, the
\* root first, each once; the cursor reaches n only after all of them.
C17_RootAndEveryShardOnce ==
    /\ [][(impl = "BlockSubscription" /\ CursorMoves) =>
             \E i \in TickIds :
                 ticks[i].fetched = BlocksAt(lastProcessedBlock')]_vars
    /\ [](\A i \in TickIds :
            (impl = "BlockSubscription" /\ ticks[i].pc # "info") =>
                /\ IsPrefix(ticks[i].fetched, BlocksAt(ticks[i].seq))
                /\ Len(ticks[i].fetched) >= 1
                /\ ticks[i].pc # "shards" => Len(ticks[i].fetched) = ticks[i].sIdx)

\* the pass over a block with two workchain shards is at its last shard
C17_Witness ==
    \E i \in TickIds :
        /\ impl = "BlockSubscription"
        /\ Len(ticks[i].fetched) = 3
        /\ ticks[i].pc = "shardTxs"

\* how many times the query a tick body waits for has been issued
Attempts(t) == t.attempt - InitialAttempt(impl) + 1

\* 10 in AccountSubscription, 3 in createAccountSubscription
MaxAttempts(im) ==
    IF im = "AccountSubscription" THEN ClassMaxRetry ELSE FnMaxAttempts

\* the page fetch of tick body i gives up in this step and the tick goes on
GivesUp(i) ==
    /\ impl \in AccountImpls
    /\ ticks[i].pc = "fetch"
    /\ Len(ticks') = Len(ticks)
    /\ ~ticks[i].exhausted
    /\ ticks'[i].exhausted

\* C18: account mode: the query for one page is issued at most maxAttempts
\* times; a fetch gives up only after that many, it then adds nothing to what
\* was collected (an empty result, no exception), and the tick body fetches
\* no more and goes to its end.
C18_RetryBoundedEndsEmpty ==
    /\ [](\A i \in TickIds :
            (impl \in AccountImpls /\ ticks[i].pc = "fetch") =>
                /\ Attempts(ticks[i]) <= MaxAttempts(impl)
                /\ ~ticks[i].exhausted)
    /\ [][\A i \in TickIds :
             GivesUp(i) =>
                 /\ Attempts(ticks[i]) = MaxAttempts(impl)
                 /\ ticks'[i].coll = ticks[i].coll
                 /\ ticks'[i].pc = "callback"
                 /\ lastRaised' = lastRaised]_vars

\* the class gave up on a deeper page after ten attempts
C18_Witness ==
    \E i \in TickIds :
        /\ impl = "AccountSubscription"
        /\ ticks[i].exhausted
        /\ Attempts(ticks[i]) = ClassMaxRetry

\* C19: chain mode: a query failure reaches an error handler (processShard's
\* catch, or the tick's catch that ends the tick) only after the query was
\* issued again at least once.
C19_ChainQueriesRetried ==
    /\ [](\A i \in TickIds :
            (impl \in ChainImpls /\ ticks[i].caught = "query") =>
                Attempts(ticks[i]) > 1)
    /\ [][\A i \in TickIds :
             (impl \in ChainImpls /\ ticks[i].pc = "shards" /\ TickEnds) =>
                 Attempts(ticks[i]) > 1]_vars

\* the tick body that start() awaits is in progress
InitialTickRuns == \E i \in TickIds : ticks[i].fromStart > 0

\* C20: start() runs a tick at once and arms the interval timer only when that
\* tick has run to completion: while the first tick body is in progress no
\* timer is armed, no handle is stored and no other tick body exists; the
\* step of start() begins exactly that tick body; the timer becomes armed in
\* the step that ends it; every later tick body is begun by an armed timer.
C20_ImmediateTickThenTimer ==
    /\ [](InitialTickRuns =>
            (timers = {} /\ intervalId = 0 /\ Len(ticks) = 1))
    /\ [][/\ (starts' # starts) =>
                (/\ Len(ticks') = Len(ticks) + 1
                 /\ ticks'[Len(ticks')].fromStart > 0
                 /\ ticks'[Len(ticks')].pc \in {"fetch", "info"}
                 /\ timers' = {})
          /\ (timers = {} /\ timers' # {}) =>
                (InitialTickRuns /\ ticks' = <<>>)
          /\ (starts' = starts /\ Len(ticks') > Len(ticks)) =>
                (/\ timers # {}
                 /\ starts > 0
                 /\ ~InitialTickRuns
                 /\ ticks'[Len(ticks')].fromStart = 0)]_vars

\* a timer-driven tick body is in progress after the first tick ended
C20_Witness ==
    \E i \in TickIds :
        /\ ticks[i].fromStart = 0
        /\ starts > 0
        /\ timers # {}

\* a transaction was handed to the handler
Handed == delivered > 0

\* C21: a transaction with an inbound message and one or more outbound
\* messages is handed to the handler like any other, and no handler treats it
\* as a deposit (it logs, credits and forwards nothing for it).
C21_BouncedNeverADeposit ==
    (Handed /\ lastTx.inMessage /\ lastTx.outMessages > 0) =>
        lastOutcome # "deposit"

\* C23: a handler never raises on a body that cannot be parsed, and the batch
\* goes on after it.
C23_MalformedIsSkipped ==
    (Handed /\ lastTx.body \in Malformed) =>
        (lastOutcome = "skip" /\ ~aborted)

\* the credits made for payment u / by transaction h
CreditsOf(u) == {k \in 1..Len(credits) : credits[k].uuid = u}
CreditsBy(h) == {k \in 1..Len(credits) : credits[k].txHash = h}

\* C22: over any sequence of processDeposit calls each payment UUID is
\* credited at most once and each transaction hash causes at most one credit;
\* a payment that is marked processed is never marked again, and a credit is
\* made exactly in the step that marks a payment.
C22_CreditedAtMostOnce ==
    /\ [](/\ \A u \in 1..Len(payments) : Cardinality(CreditsOf(u)) <= 1
          /\ \A h \in 1..MaxHashes : Cardinality(CreditsBy(h)) <= 1
          /\ \A u \in 1..Len(payments) :
                payments[u].processed <=> CreditsOf(u) # {})
    /\ [][\A u \in 1..Len(payments) :
             payments[u].processed => payments'[u] = payments[u]]_vars

\* a transaction that was credited came again and was refused
C22_Witness ==
    /\ lastCall # Undefined
    /\ lastCall.end = "transaction already processed"
    /\ CreditsBy(lastCall.txHash) # {}

\* API_KEY or WALLET_ADDRESS is missing, or the address cannot be parsed
FatalConfiguration ==
    ~env.apiKey \/ env.walletAddress # "valid"

\* C24: with a missing API_KEY, a missing WALLET_ADDRESS or an address that
\* cannot be parsed, main() never gets a subscriber: no start(), no query, no
\* timer.
C24_FatalConfigNeverPolls ==
    FatalConfiguration =>
        /\ boot # "constructed"
        /\ starts = 0
        /\ ticks = <<>>
        /\ timers = {}

\* the page fetch of tick body i failed and is issued again in this step
RetryStep(i) ==
    /\ impl \in AccountImpls
    /\ ticks[i].pc = "fetch"
    /\ Len(ticks') = Len(ticks)
    /\ ticks'[i].pc = "fetch"
    /\ ticks'[i].attempt = ticks[i].attempt + 1

\* the wait after the k-th failed attempt, in milliseconds
ExpectedDelay(im, k) ==
    IF im = "AccountSubscription"
    THEN k * 1000
    ELSE IF 1000 * 2 ^ (k - 1) < 10000 THEN 1000 * 2 ^ (k - 1) ELSE 10000

DeeperPage(i) ==
    /\ impl \in AccountImpls
    /\ Len(ticks') = Len(ticks)
    /\ ticks'[i].offLt # ticks[i].offLt

\* retryCount = 0 / attemptNumber = 1
FirstAttempt == IF impl = "AccountSubscription" THEN 0 ELSE 1

\* C29: the attempt counter has its initial value when a tick body begins and
\* whenever a tick body goes on to the next older page, whatever failed
\* before.
C29_AttemptsStartAfresh ==
    [][/\ Len(ticks') > Len(ticks) =>
              ticks'[Len(ticks')].attempt = FirstAttempt
       /\ \A i \in TickIds :
              DeeperPage(i) => ticks'[i].attempt = FirstAttempt]_vars

\* a fetch of an older page starts afresh after an earlier page had to wait
C29_Witness ==
    \E i \in TickIds :
        /\ impl \in AccountImpls
        /\ ticks[i].pc = "fetch"
        /\ ticks[i].offLt # Undefined
        /\ ticks[i].delay > 0
        /\ ticks[i].attempt = FirstAttempt

\* tick body i awaits the callback
Pending(i) == ticks[i].pc = "callback"

\* the callback invocation that tick body i awaits is still pending after
\* this step
StaysPending(i) ==
    /\ Pending(i)
    /\ Len(ticks') = Len(ticks)
    /\ ticks'[i].pc = "callback"
    /\ ticks'[i].idx = ticks[i].idx
    /\ ticks'[i].sIdx = ticks[i].sIdx

\* C30: while a callback invocation is pending the subscriber has no other
\* tick body (so no other invocation and no query in flight), and a step that
\* leaves the invocation pending hands over no transaction, moves neither
\* cursor, releases no guard and begins no tick body.
C30_CallbackIsAwaited ==
    /\ [](\A i \in TickIds : Pending(i) => (Len(ticks) = 1 /\ isProcessing))
    /\ [][\A i \in TickIds :
             StaysPending(i) =>
                 /\ passed' = passed
                 /\ acked' = acked
                 /\ chainAcked' = chainAcked
                 /\ cursor' = cursor
                 /\ lastProcessedBlock' = lastProcessedBlock
                 /\ isProcessing' = isProcessing
                 /\ ticks'[i].ordered = ticks[i].ordered
                 /\ ticks'[i].txs = ticks[i].txs]_vars
    /\ [][(\E i \in TickIds : Pending(i)) => Len(ticks') <= Len(ticks)]_vars

\* the second callback invocation of a batch is pending and a timer firing
\* found the guard set
C30_Witness ==
    \E i \in TickIds :
        /\ impl \in AccountImpls
        /\ Pending(i)
        /\ ticks[i].idx = 2
        /\ ticks[i].dropped

\* the message handled by this step
Sent == results'[Len(results')]

\* this step handles a message
Handles(op, sender) ==
    /\ Len(results') = Len(results) + 1
    /\ Sent.op = op
    /\ Sent.sender = sender

\* the second at which the pending request's time lock ends
LockEnd == contract.currentRequest.timestamp + contract.timeout

InfoAnswered(i) ==
    /\ ticks[i].pc = "info"
    /\ \/ Len(ticks') < Len(ticks)
       \/ ticks'[i].pc # "info"

\* C31: a chain tick whose getMasterchainInfo is answered while the latest
\* published sequence number is not above lastProcessedBlock ends there: no
\* shard-list, shard-transactions, full-transaction or Index API query is
\* issued, no callback is invoked, lastProcessedBlock stays as it is and the
\* guard is released.
C31_NoOpTick ==
    [][ \A i \in TickIds :
            (InfoAnswered(i) /\ latestSeqno <= lastProcessedBlock)
                => (/\ ticks' = RemoveAt(ticks, i)
                    /\ isProcessing' = FALSE
                    /\ lastProcessedBlock' = lastProcessedBlock
                    /\ chainAcked' = chainAcked
                    /\ passed' = passed) ]_vars

\* a tick started by the timer waits for getMasterchainInfo after every
\* published block was processed
C31_Witness ==
    /\ lastProcessedBlock > 0
    /\ lastProcessedBlock = latestSeqno
    /\ \E i \in TickIds : ticks[i].pc = "info" /\ ticks[i].fromStart = 0

\* C32: given the same account, page size, resume cursor and the same
\* outcomes of queries and callbacks in every tick, the class
\* AccountSubscription and the closure createAccountSubscription have handed
\* the same transactions to the callback, in the same order, and hold the same
\* cursor at the end of every tick.
C32_SameDeliveriesAndCursor ==
    /\ pair.cursor["AccountSubscription"] = pair.cursor["createAccountSubscription"]
    /\ pair.passed["AccountSubscription"] = pair.passed["createAccountSubscription"]

\* processDeposit was called in this step (a repeated identical call that is
\* turned away changes nothing at all)
Called == lastCall' # lastCall

\* the deposit of this call names no payment, a processed one, or one that
\* expects another amount
Rejected(c) ==
    \/ c.comment \notin 1..Len(payments)
    \/ payments[c.comment].processed
    \/ payments[c.comment].expectedAmount # c.amount

\* C33: a processDeposit whose comment matches no payment UUID, whose payment
\* is processed already or whose amount differs from the expected one changes
\* no payment record, adds no hash to the processed set and credits no
\* account; an account is credited only for an existing, unprocessed payment
\* of exactly the expected amount, and then that payment alone is marked, with
\* the hash of the call.
C33_RejectedDepositChangesNothing ==
    [][ /\ (Called /\ Rejected(lastCall'))
            => UNCHANGED <<payments, processedHashes, credits>>
        /\ (credits' # credits \/ processedHashes' # processedHashes)
            => (/\ Called
                /\ ~Rejected(lastCall')
                /\ credits' = Append(credits,
                       [uuid |-> lastCall'.comment,
                        userId |-> payments[lastCall'.comment].userId,
                        amount |-> payments[lastCall'.comment].expectedAmount,
                        txHash |-> lastCall'.txHash])
                /\ processedHashes' = processedHashes \cup {lastCall'.txHash}
                /\ payments' = [payments EXCEPT
                       ![lastCall'.comment].processed = TRUE,
                       ![lastCall'.comment].transactionHash = lastCall'.txHash]) ]_vars

\* after one payment was credited, a deposit for another payment was turned
\* away for its amount
C33_Witness ==
    /\ credits # <<>>
    /\ lastCall # Undefined
    /\ lastCall.end = "amount mismatch"
    /\ lastCall.txHash \notin processedHashes
    /\ ~payments[lastCall.comment].processed

\* tick body i of the Index API variant works on a block
IndexAtWork(i) ==
    /\ impl = "IndexBlockSubscription"
    /\ ticks[i].pc \in {"index", "callback"}

\* the callback returns for the last transaction of the block's list
LastCallbackReturns(i) ==
    /\ ticks[i].pc = "callback"
    /\ ticks[i].txs = TransactionsByMasterchainBlock(ticks[i].seq)
    /\ ticks[i].idx = Len(ticks[i].txs)
    /\ chainAcked' = chainAcked \cup {ticks[i].txs[ticks[i].idx]}

\* C34: the Index API variant works on one block per tick, the block after
\* lastProcessedBlock.  lastProcessedBlock moves by one, in the step in which
\* the callback returns for the last transaction of the fetched list, every
\* transaction before it having been handed over one by one after the
\* callback returned for the one before, and that step ends the tick.  A tick
\* that ends in any other way (the query failed, the callback raised) leaves
\* lastProcessedBlock as it was, so the next tick works on the same block.
C34_IndexOneBlockPerTick ==
    /\ [](\A i \in TickIds :
            IndexAtWork(i) => ticks[i].seq = lastProcessedBlock + 1)
    /\ [][\A i \in TickIds : IndexAtWork(i) =>
            /\ CursorMoves
                => (/\ lastProcessedBlock' = lastProcessedBlock + 1
                    /\ LastCallbackReturns(i)
                    /\ ticks' = RemoveAt(ticks, i))
            /\ (Len(ticks') < Len(ticks) /\ ~LastCallbackReturns(i))
                => lastProcessedBlock' = lastProcessedBlock
            /\ (Len(ticks') = Len(ticks) /\ ticks'[i].idx # ticks[i].idx)
                => (/\ ticks'[i].idx = ticks[i].idx + 1
                    /\ ticks'[i].seq = ticks[i].seq
                    /\ (ticks[i].pc = "callback"
                            => ticks[i].txs[ticks[i].idx] \in chainAcked')) ]_vars

\* after a callback raised in a block, the next tick hands the block's first
\* transaction over again: lastProcessedBlock is still behind it
C34_Witness ==
    \E i \in TickIds :
        /\ IndexAtWork(i)
        /\ ticks[i].pc = "callback"
        /\ ticks[i].txs[ticks[i].idx] \in chainAcked
        /\ ticks[i].seq = 2
        /\ lastProcessedBlock = 1

\* C35: the logical time held in the account's resume cursor never decreases,
\* whatever ticks, failed queries, raising callbacks and redeliveries occur.
C35_CursorNeverMovesBack ==
    [][ParseLt(lastProcessedLt') >= ParseLt(lastProcessedLt)]_vars

\* C36: the guard is set exactly while a tick body is executing: it is
\* released in the step in which the tick body ends, whether the tick ran to
\* completion, a query failed or the callback raised, and it is not set while
\* no tick body executes, so that a firing of the timer after the tick in
\* flight has ended finds the guard released and begins a new tick body.
C36_GuardNeverStuck ==
    /\ [](isProcessing <=> ticks # <<>>)
    /\ [][(Len(ticks') < Len(ticks)) => ~isProcessing']_vars
    /\ [][(ticks = <<>> /\ timers # {} /\ Len(ticks') > 0 /\ starts' = starts)
            => (/\ isProcessing'
                /\ ticks' = <<NewTick(0)>>)]_vars

\* the timer has begun a tick body after the tick before it ended on a
\* raising callback
C36_Witness ==
    \E i \in TickIds :
        /\ ticks[i].fromStart = 0
        /\ ticks[i].prevRaised > 0
        /\ isProcessing

\* the transaction tick body i asks for or hands to the callback
InHand(i) == ticks[i].txs[ticks[i].idx]

\* C37: a chain subscriber asks for and hands over a transaction of block n
\* only while lastProcessedBlock is below n, so no transaction of a completed
\* block is handed over again; a transaction for which the callback returned
\* before is handed over a second time only when its block was not completed,
\* the tick that delivered it having ended before lastProcessedBlock reached
\* its sequence number.
C37_NoRedeliveryOfCompletedBlock ==
    \A i \in TickIds :
        (impl \in ChainImpls /\ ticks[i].pc \in {"getTx", "callback"})
            => (/\ InHand(i).block.seqno > lastProcessedBlock
                /\ InHand(i).block.seqno = ticks[i].seq)

\* after the first block was completed, a transaction of the second block
\* for which the callback returned before is handed over again
C37_Witness ==
    \E i \in TickIds :
        /\ impl = "BlockSubscription"
        /\ ticks[i].pc = "callback"
        /\ InHand(i) \in chainAcked
        /\ InHand(i).block.seqno = 2
        /\ lastProcessedBlock = 1

\* C38: whatever start() and stop() calls were made on a subscriber, start()
\* twice before stop() included, a stop() that finds a handle and clears it
\* leaves no interval timer of the subscriber armed.
C38_StopLeavesNoTimer ==
    [][StopClears => timers' = {}]_vars

\* the pages a tick body has been answered so far, in a run without resume
\* cursor: every one of them was full and was collected whole
PagesAnswered(t) == Len(t.coll) \div limit

\* ceil(n / l)
CeilDiv(n, l) == (n + l - 1) \div l

\* tick body i is answered a full page and asks for the next older one
NextPageStep(i) ==
    /\ ticks[i].pc = "fetch"
    /\ Len(ticks') = Len(ticks)
    /\ ticks'[i].pc = "fetch"
    /\ ticks'[i].coll # ticks[i].coll

\* C39: on an account of N transactions with page size L and no resume
\* cursor, a tick that is waiting for a page has been answered whole pages
\* only, no more transactions than the account holds, so the page it waits
\* for is at most the (ceil(N/L)+1)-th; every further page is asked for with
\* an offset strictly older than the one before, the oldest transaction
\* collected; and the fetch that is answered less than a full page ends the
\* pagination.
C39_PaginationTerminates ==
    /\ [](\A i \in TickIds :
            ticks[i].pc = "fetch" =>
                /\ Len(ticks[i].coll) = PagesAnswered(ticks[i]) * limit
                /\ Len(ticks[i].coll) <= Len(history)
                /\ PagesAnswered(ticks[i]) + 1 <= CeilDiv(Len(history), limit) + 1)
    /\ [][\A i \in TickIds :
            /\ NextPageStep(i) =>
                (/\ Len(ticks'[i].coll) = Len(ticks[i].coll) + limit
                 /\ ParseLt(ticks'[i].offLt)
                        = ticks'[i].coll[Len(ticks'[i].coll)].lt
                 /\ (~Falsy(ticks[i].offLt) =>
                        ParseLt(ticks'[i].offLt) < ParseLt(ticks[i].offLt)))
            /\ (ticks[i].pc = "fetch"
                    /\ Len(GetTransactions(history, limit, ticks[i].offLt,
                                           ticks[i].offHash)) < limit)
                => (Len(ticks') < Len(ticks) \/ ticks'[i].pc # "fetch")]_vars

\* the account holds a whole number of pages, two or more, all of them were
\* collected and the tick waits for one more page, the (N/L + 1)-th
C39_Witness ==
    \E i \in TickIds :
        /\ ticks[i].pc = "fetch"
        /\ Len(history) >= 2 * limit
        /\ Len(ticks[i].coll) = Len(history)
        /\ PagesAnswered(ticks[i]) + 1 = CeilDiv(Len(history), limit) + 1


====
